---------------------------- MODULE Spec2Model ----------------------------
(***************************************************************************)
(* A model of the wlrs wallpaper daemon: the label-keyed resource cache    *)
(* (renderer/manager.rs), the animated-texture timing state machine        *)
(* (asset/animated.rs), layer ordering (common/wallpaper.rs,               *)
(* common/manifest.rs), per-display pacing (renderer/wallpaper_layer.rs)   *)
(* and control-request handling (utils.rs, main.rs, renderer/pipeline.rs), *)
(* the animated-texture loader, shader effect parameters                   *)
(* (renderer/models/effect.rs), the particle pool                          *)
(* (renderer/models/particle.rs), the control channel (common/ipc.rs) and  *)
(* the daemon's message processing (main.rs, wallpaper_manager.rs), the    *)
(* animated-texture renderable (renderer/models/animated_texture.rs) and   *)
(* one display layer's configure/draw cycle (renderer/wallpaper_layer.rs,  *)
(* renderer/client.rs), the redraw cadence, the effect pipelines of the    *)
(* cache, and the runner loop with its IPC threads (renderer/mod.rs,       *)
(* renderer/layers.rs, main.rs).                                           *)
(*                                                                         *)
(* Each subsystem has its own specification (SpecCache, SpecAnim, ...):    *)
(* its Init gives the subsystem's state after construction and pins the    *)
(* variables of the other subsystems, which its actions leave unchanged.   *)
(***************************************************************************)
EXTENDS Integers, Sequences, FiniteSets, TLC

VARIABLES
    \* ---- Manager<T> (renderer/manager.rs)
    data,             \* Manager.data: label -> stored Arc (0 = no entry)
    nextArc,          \* identity of the next Arc allocation
    held,             \* handles retained by renderables: <<label, arc>>
    onlyInit,         \* no call other than get_or_init has been made so far
    lastOp,           \* the most recent Manager call and what it did
    run,              \* consecutive get_or_init calls on one label, from absent
    \* ---- AnimatedTexture (asset/animated.rs)
    frames,           \* frames[i].duration, in milliseconds
    current_frame,    \* 0-based index
    frame_count,
    looping,
    time_accumulator, \* milliseconds
    animOp,           \* the last AnimatedTexture call and what it did
    cycle,            \* observer: index and elapsed time since a cycle start
    \* ---- Wallpaper / WallpaperManifest layer ordering (common/)
    manifest,         \* [background, effects]: the loaded manifest
    layers,           \* the last layer list returned
    layersOp,         \* which call returned it
    \* ---- Client and its display layers (renderer/client.rs, wallpaper_layer.rs)
    wallpapers,       \* Client.wallpapers: the live WallpaperLayers, in order
    daemon,           \* "running", or "panicked" once a handler has panicked
    handled,          \* the control request handled by the last step, and its reply
    rateOp,           \* the last set_framerate / set_tickrate call
    \* ---- AnimatedTexture::from_path (asset/animated.rs)
    source,           \* the image file handed to the loader
    loadResult,       \* "none" before the load, then "Ok" or "Err"
    \* ---- Pipelines::from on one wallpaper (renderer/pipeline.rs)
    wallpaperIn,      \* the loaded wallpaper handed to Pipelines::from
    pipelines,        \* its outcome, once called
    \* ---- Shader effect parameters (common/wallpaper.rs, renderer/models/effect.rs)
    effectIn,         \* the shader effect declared in the manifest
    fxLayer,          \* the layer Layer::from_effect makes of it, once made
    fxParams,         \* the parameter buffer written at build time, once built
    \* ---- Output events seen by the client (renderer/client.rs)
    outputLog,        \* observer: the outputs announced, and those whose surface was closed
    \* ---- Event loop and control channel (lib.rs, common/ipc.rs, main.rs)
    EXIT,             \* the process-wide exit flag
    loopPc,           \* event loop: "top" at its iteration check, "body", or "done"
    iteration,        \* number of the current event-loop iteration
    pending,          \* control connections waiting in the listen queue: their requests
    served,           \* observer: the connections served, in order
    stopIter,         \* observer: the iteration that handled a shutdown request, or 0
    lastFrameIter,    \* observer: the last iteration that drew a frame, or 0
    \* ---- ParticleModel (renderer/models/particle.rs)
    max_particles,    \* ParticleModel.max_particles
    particles,        \* ParticleModel.particles: the pool, slot i at position i + 1
    active_particles, \* ParticleModel.active_particles
    update_script,    \* whether the model has an update script
    luaRef,           \* the _particles_ref userdata of the running script, or NoRef
    scriptCalls,      \* host calls the running script has made
    particleOp,       \* observer: the last host call or update and what it did
    \* ---- Daemon process: IPC server and message processing (main.rs)
    msgChannel,       \* the mpsc channel of DaemonMessages, oldest first
    ipcManager,       \* the WallpaperManager of the state moved into the IPC server
    appManager,       \* the WallpaperManager of the app's WallpaperState resource
    lastLoaded,       \* observer: the wallpaper last loaded successfully, if any
    ipcReply,         \* observer: the reply of the request handled by the last step
    \* ---- AnimatedTextureModel (renderer/models/animated_texture.rs)
    bind_group,       \* AnimatedTextureModel.bind_group: the frame whose view it references
    preRenderOp,      \* observer: what the last pre_render did
    \* ---- one display layer: configure, set_size, draw (renderer/wallpaper_layer.rs)
    surface_config,   \* size the swap surface was last configured with, <<>> before
    frame_requested,  \* a frame callback is requested from the compositor
    draws,            \* number of frame callbacks delivered
    drawOp,           \* observer: the last event of the display layer
    \* ---- cadence of counter-triggered redraws (renderer/wallpaper_layer.rs)
    sinceRedraw,      \* draw calls since the last one with should_redraw, -1 before the first
    lastGap,          \* draw calls between the last two with should_redraw, 0 before
    \* ---- effect renderables and the shared pipeline cache (renderer/models/effect.rs)
    arcShader,        \* the shader each pipeline instance was compiled from
    effectModels,     \* the effect renderables built, with their shader and pipeline
    \* ---- the runner loop and the IPC threads (renderer/mod.rs, main.rs)
    runPc,            \* where the runner thread is: dispatch, drawing, sleep or update
    wlEvents,         \* compositor events waiting on the connection
    drawStart         \* the wallpaper state when the draw in progress began

cacheVars == <<data, nextArc, held, onlyInit, lastOp, run>>
animVars  == <<frames, current_frame, frame_count, looping, time_accumulator,
               animOp, cycle>>
layerVars == <<manifest, layers, layersOp>>
clientVars == <<wallpapers, daemon, handled, rateOp>>
loadVars == <<source, loadResult>>
asmVars == <<wallpaperIn, pipelines>>
fxVars == <<effectIn, fxLayer, fxParams>>
outVars == <<outputLog>>
loopVars == <<EXIT, loopPc, iteration, pending, served, stopIter, lastFrameIter>>
particleVars == <<max_particles, particles, active_particles, update_script, luaRef, scriptCalls, particleOp>>
daemonVars == <<msgChannel, ipcManager, appManager, lastLoaded, ipcReply>>
modelVars == <<bind_group, preRenderOp>>
drawVars == <<surface_config, frame_requested, draws, drawOp>>
paceVars == <<sinceRedraw, lastGap>>
pipeVars == <<arcShader, effectModels>>
runVars == <<runPc, wlEvents, drawStart>>
vars == <<cacheVars, animVars, layerVars, clientVars, loadVars, asmVars, fxVars, outVars, loopVars, particleVars, daemonVars, modelVars, drawVars, paceVars, pipeVars, runVars>>
notCache == <<animVars, layerVars, clientVars, loadVars, asmVars, fxVars, outVars, loopVars, particleVars, daemonVars, modelVars, drawVars, paceVars, pipeVars, runVars>>
notAnim == <<cacheVars, layerVars, clientVars, loadVars, asmVars, fxVars, outVars, loopVars, particleVars, daemonVars, modelVars, drawVars, paceVars, pipeVars, runVars>>
notLayers == <<cacheVars, animVars, clientVars, loadVars, asmVars, fxVars, outVars, loopVars, particleVars, daemonVars, modelVars, drawVars, paceVars, pipeVars, runVars>>
notClient == <<cacheVars, animVars, layerVars, loadVars, asmVars, fxVars, outVars, loopVars, particleVars, daemonVars, modelVars, drawVars, paceVars, pipeVars, runVars>>
notLoad == <<cacheVars, layerVars, clientVars, asmVars, fxVars, outVars, loopVars, particleVars, daemonVars, modelVars, drawVars, paceVars, pipeVars, runVars>>
notAsm == <<cacheVars, animVars, layerVars, clientVars, loadVars, fxVars, outVars, loopVars, particleVars, daemonVars, modelVars, drawVars, paceVars, pipeVars, runVars>>
notFx == <<cacheVars, animVars, layerVars, clientVars, loadVars, asmVars, outVars, loopVars, particleVars, daemonVars, modelVars, drawVars, paceVars, pipeVars, runVars>>
notOut == <<cacheVars, animVars, layerVars, loadVars, asmVars, fxVars, loopVars, particleVars, daemonVars, modelVars, drawVars, paceVars, pipeVars, runVars>>
notLoop == <<cacheVars, animVars, layerVars, clientVars, loadVars, asmVars, fxVars, outVars, particleVars, daemonVars, modelVars, drawVars, paceVars, pipeVars, runVars>>
notParticle == <<cacheVars, animVars, layerVars, clientVars, loadVars, asmVars, fxVars, outVars, loopVars, daemonVars, modelVars, drawVars, paceVars, pipeVars, runVars>>
notDaemon == <<cacheVars, animVars, layerVars, clientVars, loadVars, asmVars, fxVars, outVars, loopVars, particleVars, modelVars, drawVars, paceVars, pipeVars, runVars>>
notModel == <<cacheVars, layerVars, clientVars, loadVars, asmVars, fxVars, outVars, loopVars, particleVars, daemonVars, drawVars, paceVars, pipeVars, runVars>>
notDraw == <<cacheVars, animVars, layerVars, loadVars, asmVars, fxVars, outVars, loopVars, particleVars, daemonVars, modelVars, paceVars, pipeVars, runVars>>
notPace == <<cacheVars, animVars, layerVars, loadVars, asmVars, fxVars, outVars, loopVars, particleVars, daemonVars, modelVars, drawVars, pipeVars, runVars>>
notPipe == <<animVars, layerVars, clientVars, loadVars, asmVars, fxVars, outVars, loopVars, particleVars, daemonVars, modelVars, drawVars, paceVars, runVars>>
notRun == <<cacheVars, animVars, layerVars, clientVars, loadVars, asmVars, fxVars, outVars, loopVars, particleVars, modelVars, drawVars, paceVars, pipeVars>>

\* Model bounds.
MaxArcs == 3          \* Arc allocations per run
MaxFrames == 3        \* frames of an animation
MaxEffects == 4       \* effect layers of a manifest
MaxTicks == 2         \* draw calls per display layer
MaxDecoded == 2       \* frames a decoder yields from one file
MaxFx == 2            \* effects of a wallpaper handed to Pipelines::from
MaxConns == 2         \* control connections made to the daemon
MaxIters == 3         \* event-loop iterations
MaxPool == 2          \* max_particles of a particle model
MaxCalls == 2         \* host calls a script makes in one update
MaxMsgs == 2          \* messages waiting in the daemon's channel

(***************************************************************************)
(* Manager<T>                                                              *)
(***************************************************************************)
Labels == {"texture", "effect"}
NoArc == 0
Arcs == 1..MaxArcs
NoOp == [kind |-> "none", name |-> "", present |-> FALSE, called |-> FALSE,
         alloc |-> FALSE, ret |-> NoArc]
NoRun == [name |-> "", n |-> 0, ret |-> NoArc]

\* Manager::new
ManagerNew == [l \in Labels |-> NoArc]

\* Manager::contains
Contains(d, name) == d[name] # NoArc

\* Manager::get
Get(d, name) == d[name]

\* A get_or_init that runs the factory on every call (a faulty variant).
GetOrInitAlways(d, name, fresh) ==
    [data |-> [d EXCEPT ![name] = fresh], called |-> TRUE, ret |-> fresh]

\* A get_or_init that hands out the factory's Arc without storing it (a faulty variant).
GetOrInitNoStore(d, name, fresh) ==
    IF d[name] # NoArc
    THEN [data |-> d, called |-> FALSE, ret |-> d[name]]
    ELSE [data |-> d, called |-> TRUE, ret |-> fresh]

\* Manager::get_or_init: entry(name).or_insert_with(init).clone().  The
\* factory runs only for a vacant entry and yields the Arc `fresh`.
GetOrInit(d, name, fresh) ==
    IF Contains(d, name)
    THEN [data |-> d, called |-> FALSE, ret |-> d[name]]
    ELSE [data |-> [d EXCEPT ![name] = fresh], called |-> TRUE, ret |-> fresh]

\* Manager::insert_rc: HashMap::insert, returns the previous value.
InsertRc(d, name, arc) == [data |-> [d EXCEPT ![name] = arc], ret |-> d[name]]

\* Manager::insert: wraps the value in a new Arc.
Insert(d, name, fresh) == InsertRc(d, name, fresh)

\* Manager::update: insert only over an existing entry.
Update(d, name, fresh) ==
    IF Contains(d, name) THEN Insert(d, name, fresh)
    ELSE [data |-> d, ret |-> NoArc]

\* Manager::remove
Remove(d, name) == [data |-> [d EXCEPT ![name] = NoArc], ret |-> d[name]]

\* Manager::clear
Clear(d) == [l \in Labels |-> NoArc]

CacheInit ==
    /\ data = ManagerNew
    /\ nextArc = 1
    /\ held = {}
    /\ onlyInit = TRUE
    /\ lastOp = NoOp
    /\ run = NoRun

\* What the call did: whether the label was present before it, whether the
\* factory ran, whether the call created an instance, the handle returned.
Record(kind, name, called, alloc, ret) ==
    /\ lastOp' = [kind |-> kind, name |-> name, present |-> Contains(data, name),
                  called |-> called, alloc |-> alloc, ret |-> ret]
    /\ run' = IF kind # "get_or_init" THEN NoRun
              ELSE IF ~Contains(data, name)
                   THEN [name |-> name, n |-> 1, ret |-> ret]
              ELSE IF run.n >= 1 /\ run.name = name
                   THEN [run EXCEPT !.n = 2]
              ELSE NoRun

\* A model builder fetches-or-creates its layout or pipeline and keeps the
\* handle in the renderable it builds.
DoGetOrInit(name) ==
    /\ nextArc <= MaxArcs
    /\ LET r == GetOrInit(data, name, nextArc) IN
        /\ data' = r.data
        /\ nextArc' = IF r.called THEN nextArc + 1 ELSE nextArc
        /\ held' = held \cup {<<name, r.ret>>}
        /\ Record("get_or_init", name, r.called, r.called, r.ret)
    /\ UNCHANGED <<onlyInit, notCache>>

DoInsert(name) ==
    /\ nextArc <= MaxArcs
    /\ LET r == Insert(data, name, nextArc) IN
        /\ data' = r.data
        /\ Record("insert", name, FALSE, TRUE, r.ret)
    /\ nextArc' = nextArc + 1
    /\ onlyInit' = FALSE
    /\ UNCHANGED <<held, notCache>>

\* insert_rc with an Arc the caller already holds.
DoInsertRc(name) ==
    /\ \E h \in held :
        LET r == InsertRc(data, name, h[2]) IN
        /\ data' = r.data
        /\ Record("insert_rc", name, FALSE, FALSE, r.ret)
    /\ onlyInit' = FALSE
    /\ UNCHANGED <<nextArc, held, notCache>>

\* update allocates an Arc only when it inserts.
DoUpdate(name) ==
    /\ nextArc <= MaxArcs
    /\ LET r == Update(data, name, nextArc) IN
        /\ data' = r.data
        /\ Record("update", name, FALSE, Contains(data, name), r.ret)
    /\ nextArc' = IF Contains(data, name) THEN nextArc + 1 ELSE nextArc
    /\ onlyInit' = FALSE
    /\ UNCHANGED <<held, notCache>>

DoRemove(name) ==
    /\ LET r == Remove(data, name) IN
        /\ data' = r.data
        /\ Record("remove", name, FALSE, FALSE, r.ret)
    /\ onlyInit' = FALSE
    /\ UNCHANGED <<nextArc, held, notCache>>

DoClear ==
    /\ data' = Clear(data)
    /\ lastOp' = [NoOp EXCEPT !.kind = "clear"]
    /\ run' = NoRun
    /\ onlyInit' = FALSE
    /\ UNCHANGED <<nextArc, held, notCache>>

\* DerefMut: the caller mutates the HashMap itself, here by removing an
\* entry or by storing an Arc it holds under a label.
DoDerefMut(name) ==
    /\ \E v \in {NoArc} \cup {h[2] : h \in held} :
        /\ data' = [data EXCEPT ![name] = v]
        /\ Record("deref_mut", name, FALSE, FALSE, NoArc)
    /\ onlyInit' = FALSE
    /\ UNCHANGED <<nextArc, held, notCache>>

\* A renderable is dropped and releases its handle.
DropHandle ==
    /\ \E h \in held : held' = held \ {h}
    /\ UNCHANGED <<data, nextArc, onlyInit, lastOp, run, notCache>>

CacheNext ==
    \/ \E name \in Labels : DoGetOrInit(name)
    \/ \E name \in Labels : DoInsert(name)
    \/ \E name \in Labels : DoInsertRc(name)
    \/ \E name \in Labels : DoUpdate(name)
    \/ \E name \in Labels : DoRemove(name)
    \/ DoClear
    \/ \E name \in Labels : DoDerefMut(name)
    \/ DropHandle


(***************************************************************************)
(* Claims about Manager<T>, checked under SpecCache                        *)
(***************************************************************************)
\* C1: of two consecutive get_or_init(L, f) calls that start with L absent,
\* the first runs the factory, the second does not, and both return the
\* instance stored under L.
C1_GetOrInitTwice ==
    /\ run.n = 1 => lastOp.called /\ lastOp.ret = run.ret
    /\ run.n = 2 => /\ ~lastOp.called
                    /\ lastOp.ret = run.ret
                    /\ data[run.name] = run.ret

\* C1 witness: the second of two such calls has returned.
C1_Witness ==
    /\ run.n = 2
    /\ lastOp.kind = "get_or_init" /\ lastOp.present
    /\ <<run.name, run.ret>> \in held

\* The handles held by renderables all refer to what the cache stores.
HeldAreStored == \A h \in held : data[h[1]] = h[2]

\* C10 as claimed: after any sequence of cache operations every held handle
\* refers to the instance stored under its label, and only get_or_init
\* creates instances.
C10_AnyOperation ==
    /\ HeldAreStored
    /\ lastOp.alloc => lastOp.kind = "get_or_init"

\* C10 amended: while get_or_init is the only operation applied to the
\* cache, every held handle refers to the instance stored under its label
\* and one instance exists per stored label.
C10_OnlyGetOrInit ==
    onlyInit =>
        /\ HeldAreStored
        /\ Cardinality({l \in Labels : Contains(data, l)}) = nextArc - 1

\* C10 witness: two labels initialised, one of them fetched again.
C10_Witness ==
    /\ onlyInit
    /\ Cardinality(held) = 2
    /\ lastOp.kind = "get_or_init" /\ lastOp.present

(***************************************************************************)
(* AnimatedTexture                                                         *)
(***************************************************************************)
\* Frame durations from_frames can store (milliseconds): the 100 ms default,
\* the 500 ms cap and encoded delays in between.
Durations == {50, 100, 500}
\* Elapsed times handed to update (milliseconds).
Dts == {0, 50, 100, 150, 200, 600, 1000}
\* Duration::MAX of a static image: more milliseconds than any accumulator of
\* the model reaches (TLC integers are 32 bits wide).
DurationMax == 2147483647
FORCE_ADVANCE_MS == 1000

FrameSeqs == UNION {[1..n -> Durations] : n \in 2..MaxFrames}

NoAnimOp == [kind |-> "new", changed |-> FALSE, advanced |-> FALSE]
NoCycle == [on |-> FALSE, start |-> 0, elapsed |-> 0]
\* Observer: a measurement of one cycle starting at index i (animations only).
NewCycle(count, i) ==
    IF count > 1 THEN [on |-> TRUE, start |-> i, elapsed |-> 0] ELSE NoCycle

Sum(f) ==
    LET S[i \in 0..Len(f)] == IF i = 0 THEN 0 ELSE S[i - 1] + f[i] IN S[Len(f)]

\* AnimatedTexture::from_frames / from_single_image
AnimInit ==
    /\ \/ frames \in FrameSeqs
       \/ frames = <<DurationMax>>
    /\ current_frame = 0
    /\ frame_count = Len(frames)
    /\ looping \in BOOLEAN
    /\ time_accumulator = 0
    /\ animOp = NoAnimOp
    /\ cycle = NewCycle(frame_count, 0)

\* The index after one advance, without wrapping (a faulty variant).
NextFrameNoWrap(cur, count) == cur + 1

\* self.current_frame = (self.current_frame + 1) % self.frame_count
NextFrame(cur, count) == (cur + 1) % count

\* The end-of-animation rule without the freeze (a faulty variant).
EndRuleNoFreeze(loop, idx, count, acc) == [idx |-> idx, acc |-> acc]

\* If we reached the end and not looping, stay on the last frame.
EndRule(loop, idx, count, acc) ==
    IF ~loop /\ idx = 0 THEN [idx |-> count - 1, acc |-> 0]
    ELSE [idx |-> idx, acc |-> acc]

\* AnimatedTexture::update: the new index and accumulator, and whether the
\* advance branch was taken.
UpdateAnim(f, cur, count, loop, acc0, dt) ==
    IF count <= 1 THEN [idx |-> cur, acc |-> acc0, advanced |-> FALSE]
    ELSE
        LET acc == acc0 + dt
            frame_duration == f[cur + 1]
            force_advance == acc >= FORCE_ADVANCE_MS
        IN  IF acc >= frame_duration \/ force_advance
            THEN LET acc1 == IF force_advance THEN 0 ELSE acc - frame_duration
                     e == EndRule(loop, NextFrame(cur, count), count, acc1)
                 IN  [idx |-> e.idx, acc |-> e.acc, advanced |-> TRUE]
            ELSE [idx |-> cur, acc |-> acc, advanced |-> FALSE]

DoUpdateAnim(dt) ==
    /\ LET r == UpdateAnim(frames, current_frame, frame_count, looping,
                           time_accumulator, dt) IN
        /\ current_frame' = r.idx
        /\ time_accumulator' = r.acc
        /\ animOp' = [kind |-> "update", changed |-> r.idx # current_frame,
                      advanced |-> r.advanced]
    \* observer: elapsed time since the cycle start, up to one full cycle
    /\ cycle' = IF cycle.on /\ cycle.elapsed + dt <= Sum(frames)
                THEN [cycle EXCEPT !.elapsed = @ + dt]
                ELSE NoCycle
    /\ UNCHANGED <<frames, frame_count, looping, notAnim>>

\* AnimatedTexture::reset
DoReset ==
    /\ current_frame' = 0
    /\ time_accumulator' = 0
    /\ animOp' = [kind |-> "reset", changed |-> current_frame # 0,
                  advanced |-> FALSE]
    /\ cycle' = NewCycle(frame_count, 0)
    /\ UNCHANGED <<frames, frame_count, looping, notAnim>>

\* AnimatedTexture::set_looping
DoSetLooping(b) ==
    /\ looping' = b
    /\ animOp' = [kind |-> "set_looping", changed |-> FALSE, advanced |-> FALSE]
    /\ cycle' = NoCycle
    /\ UNCHANGED <<frames, current_frame, frame_count, time_accumulator, notAnim>>

\* Observer: a cycle measurement starts at the current index whenever the
\* accumulator is empty.
BeginCycle ==
    /\ time_accumulator = 0
    /\ frame_count > 1
    /\ cycle' = NewCycle(frame_count, current_frame)
    /\ cycle' # cycle
    /\ UNCHANGED <<frames, current_frame, frame_count, looping,
                   time_accumulator, animOp, notAnim>>

AnimNext ==
    \/ \E dt \in Dts : DoUpdateAnim(dt)
    \/ DoReset
    \/ \E b \in BOOLEAN : DoSetLooping(b)
    \/ BeginCycle


(***************************************************************************)
(* Claims about AnimatedTexture, checked under SpecAnim                    *)
(***************************************************************************)
\* C2: the frame index stays within [0, frame_count).
C2_IndexInRange == 0 <= current_frame /\ current_frame < frame_count

\* C2 witness: an update of a looping animation wrapped the index to 0.
C2_Witness ==
    /\ animOp.kind = "update" /\ animOp.changed
    /\ looping /\ frame_count > 1 /\ current_frame = 0

\* C3: a non-looping animation that is on its last frame leaves it only by
\* reset(), which puts it on frame 0; no update moves it.
C3_PinnedAtLast ==
    [][(~looping /\ frame_count > 1 /\ current_frame = frame_count - 1
            /\ current_frame' # current_frame)
        => (animOp'.kind = "reset" /\ current_frame' = 0)]_vars

\* C3 witness: an update on the last frame of a non-looping animation took
\* the advance branch and the index stayed.
C3_Witness ==
    /\ ~looping /\ frame_count > 1 /\ current_frame = frame_count - 1
    /\ animOp.kind = "update" /\ animOp.advanced /\ ~animOp.changed

\* C4: on a looping animation, updates that add up to one full cycle from an
\* empty accumulator leave the index where it started.
C4_FullCycleReturns ==
    (cycle.on /\ looping /\ frame_count > 1 /\ cycle.elapsed = Sum(frames))
        => current_frame = cycle.start



\* C20: on return from update on a looping animation of more than one frame,
\* every frame duration that fitted into the accumulator has been consumed:
\* the accumulator is below the duration of the current frame.
C20_AccumulatorConsumed ==
    (animOp.kind = "update" /\ frame_count > 1 /\ looping) =>
        time_accumulator < frames[current_frame + 1]

(***************************************************************************)
(* AnimatedTexture::from_path                                              *)
(***************************************************************************)
Formats == {"WebP", "Gif", "Png"}
\* Encoded frame delays <<numerator, denominator>>, as numer_denom_ms gives
\* them.
Delays == {<<0, 1>>, <<1, 20>>, <<100, 1>>, <<2, 1>>, <<1, 2000>>}
DEFAULT_FRAME_MS == 100
LONG_FRAME_MS == 10000
CAPPED_FRAME_MS == 500

\* A file: its format, whether a WebP announces an animation, whether the
\* animation decoder reads it, the delays of the frames it yields, and whether
\* image::load reads it as a static image.
Sources ==
    [format : Formats,
     has_animation : BOOLEAN,
     decode : {"ok", "err"},
     delays : UNION {[1..n -> Delays] : n \in 0..MaxDecoded},
     static : {"ok", "err"}]
NoSource ==
    [format |-> "Png", has_animation |-> FALSE, decode |-> "ok",
     delays |-> <<>>, static |-> "ok"]

\* from_frames: the duration stored for a frame with delay n/d.
FrameDuration(n, d) ==
    IF n = 0 \/ d = 0 THEN DEFAULT_FRAME_MS
    ELSE IF (n * 1000) \div d > LONG_FRAME_MS THEN CAPPED_FRAME_MS
    ELSE (n * 1000) \div d

\* from_single_image, reached through image::load(..)?
FromSingleImage(src) ==
    IF src.static = "ok" THEN [result |-> "Ok", frames |-> <<DurationMax>>]
    ELSE [result |-> "Err", frames |-> <<>>]

\* if frame_count == 0 { image::load(..)?; from_single_image }
ZeroFramesFallback(src) == FromSingleImage(src)

\* from_frames
FromFrames(delays) ==
    [result |-> "Ok",
     frames |-> [i \in 1..Len(delays) |-> FrameDuration(delays[i][1], delays[i][2])]]

\* AnimatedTexture::from_path: Ok with the frame durations, or Err.
FromPath(src) ==
    IF src.format \notin {"WebP", "Gif"} THEN FromSingleImage(src)
    ELSE IF src.decode = "err" THEN [result |-> "Err", frames |-> <<>>]
    ELSE IF src.format = "WebP" /\ ~src.has_animation THEN FromSingleImage(src)
    ELSE IF Len(src.delays) = 0 THEN ZeroFramesFallback(src)
    ELSE FromFrames(src.delays)

\* AnimatedTexture::is_animated
IsAnimated == frame_count > 1

LoadInit ==
    /\ source \in Sources
    /\ loadResult = "none"

DoFromPath(loop) ==
    /\ loadResult = "none"
    /\ LET r == FromPath(source) IN
        /\ loadResult' = r.result
        /\ IF r.result = "Ok"
           THEN /\ frames' = r.frames
                /\ frame_count' = Len(r.frames)
                /\ looping' = loop
                /\ cycle' = NewCycle(Len(r.frames), 0)
           ELSE UNCHANGED <<frames, frame_count, looping, cycle>>
    /\ current_frame' = 0
    /\ time_accumulator' = 0
    /\ animOp' = NoAnimOp
    /\ UNCHANGED <<source, notLoad>>

\* The loaded texture in use.
LoadedNext == loadResult = "Ok" /\ AnimNext

LoadNext ==
    \/ \E loop \in BOOLEAN : DoFromPath(loop)
    \/ LoadedNext

(***************************************************************************)
(* Claims about the loader, checked under SpecLoad                         *)
(***************************************************************************)
\* The file went through the animation decoder and yielded no frame.
DecodesToZeroFrames(src) ==
    /\ src.format \in {"WebP", "Gif"}
    /\ src.format = "WebP" => src.has_animation
    /\ src.decode = "ok"
    /\ Len(src.delays) = 0

\* The file is a readable image of a format (or WebP variant) without
\* animation.
NoAnimationCapability(src) ==
    /\ \/ src.format \notin {"WebP", "Gif"}
       \/ src.format = "WebP" /\ src.decode = "ok" /\ ~src.has_animation
    /\ src.static = "ok"

\* C11: a source that decodes to zero frames, or whose format has no
\* animation, loads as a texture with frame_count = 1 that is not animated,
\* and no update on it reports a change or moves the index or the accumulator.
C11_StaticFallback ==
    (loadResult # "none"
        /\ (DecodesToZeroFrames(source) \/ NoAnimationCapability(source)))
    => /\ loadResult = "Ok"
       /\ frame_count = 1
       /\ ~IsAnimated
       /\ current_frame = 0
       /\ time_accumulator = 0
       /\ animOp.kind = "update" => ~animOp.changed

\* C21: an update changes the frame index only if the accumulator, after dt
\* is added, is at least the duration of the frame that was current when the
\* call began.
C21_AdvanceOnlyWhenDue ==
    [][\A dt \in Dts :
           (DoUpdateAnim(dt) /\ current_frame' # current_frame)
               => time_accumulator + dt >= frames[current_frame + 1]]_vars

\* C22: a frame decoded with delay n/d is stored with 100 ms when n = 0 or
\* d = 0, and otherwise with a duration above zero and at most 500 ms.
C22_DurationDefaultOrCapped ==
    (loadResult = "Ok" /\ source.decode = "ok" /\ Len(source.delays) > 0
        /\ (source.format = "Gif" \/ (source.format = "WebP" /\ source.has_animation))) =>
        \A i \in 1..Len(source.delays) :
            LET n == source.delays[i][1]
                d == source.delays[i][2]
            IN  IF n = 0 \/ d = 0 THEN frames[i] = 100
                ELSE frames[i] > 0 /\ frames[i] <= 500

(***************************************************************************)
(* Layer ordering: Wallpaper::get_layers, WallpaperManifest::get_sorted_   *)
(* layers                                                                  *)
(***************************************************************************)
ZIndices == {-2000, -1000, 5, 10}
Backgrounds == {"None", "Color", "Image", "Combined"}
BACKGROUND_Z == -1000
COLOR_Z == -999

Manifests ==
    [background : Backgrounds,
     effects : UNION {[1..n -> ZIndices] : n \in 0..MaxEffects}]

\* Layer::z_index
LayerZIndex(layer) ==
    CASE layer.kind = "Background" -> BACKGROUND_Z
      [] layer.kind = "Color" -> COLOR_Z
      [] OTHER -> layer.z

\* manifest::Layer.z_index (the sort key of get_sorted_layers)
ManifestZIndex(layer) == layer.z

\* An insertion that puts x before the elements of equal key (a faulty variant).
InsertBeforeEqual(sorted, x, kx, keys) ==
    LET pos == Cardinality({i \in 1..Len(sorted) : keys[i] < kx})
    IN  SubSeq(sorted, 1, pos) \o <<x>> \o SubSeq(sorted, pos + 1, Len(sorted))

\* One step of the stable sort behind slice::sort_by_key: x goes after every
\* element whose key is not greater than its own.  keys[i] is the key of
\* sorted[i].
InsertStable(sorted, x, kx, keys) ==
    LET pos == Cardinality({i \in 1..Len(sorted) : keys[i] <= kx})
    IN  SubSeq(sorted, 1, pos) \o <<x>> \o SubSeq(sorted, pos + 1, Len(sorted))

\* slice::sort_by_key; k[i] is the key the key function gives s[i].  P[i] is
\* the sorted order of the first i positions of s.
SortByKey(s, k) ==
    LET P[i \in 0..Len(s)] ==
            IF i = 0 THEN <<>>
            ELSE LET prev == P[i - 1]
                 IN  InsertStable(prev, i, k[i],
                                  [j \in 1..Len(prev) |-> k[prev[j]]])
    IN  [j \in 1..Len(s) |-> s[P[Len(s)][j]]]

\* The keys of a layer list under Layer::z_index.
ZIndexKeys(s) == [i \in 1..Len(s) |-> LayerZIndex(s[i])]

\* The layer list of get_layers before sorting: the background, if any, then
\* the effects in manifest order.  id is the position in that list.
UnsortedLayers(m) ==
    LET bg == CASE m.background = "Color" -> <<[kind |-> "Color", z |-> 0]>>
                [] m.background \in {"Image", "Combined"}
                       -> <<[kind |-> "Background", z |-> 0]>>
                [] OTHER -> <<>>
        all == bg \o [i \in 1..Len(m.effects) |->
                          [kind |-> "Effect", z |-> m.effects[i]]]
    IN  [i \in 1..Len(all) |-> [id |-> i, kind |-> all[i].kind, z |-> all[i].z]]

\* Wallpaper::get_layers
GetLayers(m) == SortByKey(UnsortedLayers(m), ZIndexKeys(UnsortedLayers(m)))

\* WallpaperManifest::get_sorted_layers
GetSortedLayers(m) ==
    LET ls == [i \in 1..Len(m.effects) |->
                   [id |-> i, kind |-> "Effect", z |-> m.effects[i]]]
    IN  SortByKey(ls, [i \in 1..Len(ls) |-> ManifestZIndex(ls[i])])

LayersInit ==
    /\ manifest \in Manifests
    /\ layers = <<>>
    /\ layersOp = "none"

DoGetLayers ==
    /\ layers' = GetLayers(manifest)
    /\ layersOp' = "get_layers"
    /\ UNCHANGED <<manifest, notLayers>>

DoGetSortedLayers ==
    /\ layers' = GetSortedLayers(manifest)
    /\ layersOp' = "get_sorted_layers"
    /\ UNCHANGED <<manifest, notLayers>>

LayersNext ==
    \/ DoGetLayers
    \/ DoGetSortedLayers

(***************************************************************************)
(* Claims about layer ordering, checked under SpecLayers                   *)
(***************************************************************************)
\* The input list of the call that produced `layers`.
LayersInput ==
    IF layersOp = "get_layers" THEN UnsortedLayers(manifest)
    ELSE [i \in 1..Len(manifest.effects) |->
              [id |-> i, kind |-> "Effect", z |-> manifest.effects[i]]]

\* C5: the returned list holds every layer once, in ascending z-index, and
\* layers of equal z-index in manifest order; z-indices [10, -1000, 5, -1000]
\* come out as the 2nd, 4th, 3rd and 1st layer.
C5_StableAscending ==
    layersOp # "none" =>
        /\ Len(layers) = Len(LayersInput)
        /\ \A x \in 1..Len(LayersInput) :
               \E i \in 1..Len(layers) : layers[i] = LayersInput[x]
        /\ \A i, j \in 1..Len(layers) :
               i < j =>
                   /\ LayerZIndex(layers[i]) <= LayerZIndex(layers[j])
                   /\ LayerZIndex(layers[i]) = LayerZIndex(layers[j])
                          => layers[i].id < layers[j].id
        /\ (layersOp = "get_sorted_layers"
               /\ manifest.effects = <<10, -1000, 5, -1000>>)
              => [i \in 1..4 |-> layers[i].id] = <<2, 4, 3, 1>>

\* C5 witness: the layers with z-indices [10, -1000, 5, -1000] were sorted.
C5_Witness ==
    /\ layersOp = "get_sorted_layers"
    /\ manifest.effects = <<10, -1000, 5, -1000>>
    /\ Len(layers) = 4


\* C19: for a wallpaper with an image background, whatever the z-indices of
\* its effects, the first layer get_layers returns is the background.
C19_BackgroundFirst ==
    (layersOp = "get_layers" /\ manifest.background \in {"Image", "Combined"}) =>
        layers[1].kind = "Background"

(***************************************************************************)
(* WallpaperLayer: construction and pacing ratios                          *)
(***************************************************************************)
\* u32::MAX.  TLC's integers end at 2^31 - 1, so the model stands that value
\* in for 2^32 - 1: the code only tests the ratio for equality with u32::MAX,
\* compares it with it, or takes a counter below 6000 modulo it.
U32Max == 2147483647
I32Max == 2147483647
I32Min == -I32Max - 1
SYSTEM_FPS == 60
SYSTEM_TPS == 60
Rates == (-3..61) \cup {90, 120, I32Min, I32Max}
EmptyPipelines == <<>>

\* WallpaperLayer::new for output o, whose reported name is name.
\* Client::new_layer and the requests WallpaperLayer::new makes on the layer
\* surface, anchored to the top edge only (a faulty variant).
LayerSurfaceTopOnly ==
    [layer |-> "Background", anchor |-> {"TOP"},
     keyboard_interactivity |-> "None", margin |-> <<0, 0, 0, 0>>,
     exclusive_zone |-> -1]

\* Client::new_layer and the requests WallpaperLayer::new makes on the layer
\* surface before its first commit.
LayerSurface ==
    [layer |-> "Background", anchor |-> {"TOP", "LEFT", "BOTTOM", "RIGHT"},
     keyboard_interactivity |-> "None", margin |-> <<0, 0, 0, 0>>,
     exclusive_zone |-> -1]

NoOutputs == [announced |-> {}, closed |-> {}]

NewLayer(o, name) ==
    [name |-> name, layer |-> LayerSurface,
     output |-> o, damaged |-> TRUE, configured |-> FALSE,
     width |-> 0, height |-> 0, wallpaper |-> EmptyPipelines,
     frame_counter |-> 0, frames_per_update |-> 1,
     tick_counter |-> 0, ticks_per_update |-> 1]

\* set_framerate that also takes 0 for compositor-driven timing (a faulty variant).
SetFramerateZeroCompositor(layer, framerate) ==
    [layer EXCEPT !.frames_per_update =
        IF framerate <= 0 THEN 0
        ELSE IF framerate >= SYSTEM_FPS THEN 1
        ELSE SYSTEM_FPS \div framerate]

\* WallpaperLayer::set_framerate
SetFramerate(layer, framerate) ==
    [layer EXCEPT !.frames_per_update =
        IF framerate < 0 THEN 0
        ELSE IF framerate = 0 THEN U32Max
        ELSE IF framerate >= SYSTEM_FPS THEN 1
        ELSE SYSTEM_FPS \div framerate]

\* WallpaperLayer::set_tickrate
SetTickrate(layer, tickrate) ==
    [layer EXCEPT !.ticks_per_update =
        IF tickrate < 0 THEN 0
        ELSE IF tickrate = 0 THEN U32Max
        ELSE IF tickrate >= SYSTEM_TPS THEN 1
        ELSE SYSTEM_TPS \div tickrate]

NoRateOp == [kind |-> "none", arg |-> 0]
NoReply == [kind |-> "none"]

RateInit ==
    /\ wallpapers = <<NewLayer("wl_output@1", "DP-1")>>
    /\ daemon = "running"
    /\ handled = NoReply
    /\ rateOp = NoRateOp

DoSetFramerate(r) ==
    /\ wallpapers' = [wallpapers EXCEPT ![1] = SetFramerate(@, r)]
    /\ rateOp' = [kind |-> "set_framerate", arg |-> r]
    /\ UNCHANGED <<daemon, handled, notClient>>

DoSetTickrate(r) ==
    /\ wallpapers' = [wallpapers EXCEPT ![1] = SetTickrate(@, r)]
    /\ rateOp' = [kind |-> "set_tickrate", arg |-> r]
    /\ UNCHANGED <<daemon, handled, notClient>>

RateNext ==
    \/ \E r \in Rates : DoSetFramerate(r)
    \/ \E r \in Rates : DoSetTickrate(r)

(***************************************************************************)
(* Claims about pacing ratios, checked under SpecRate                      *)
(***************************************************************************)
\* The ratio the last call stored.
LastRatio ==
    IF rateOp.kind = "set_framerate" THEN wallpapers[1].frames_per_update
    ELSE wallpapers[1].ticks_per_update

\* C6: after set_framerate(r) or set_tickrate(r) the ratio is 0 for r < 0,
\* u32::MAX for r = 0, 1 for r >= 60 and the integer quotient of 60 by r for
\* 0 < r < 60 (30 gives 2, -1 gives 0, 0 gives MAX, 90 gives 1); for r > 0 it
\* is neither 0 nor MAX.
C6_RateRatios ==
    rateOp.kind # "none" =>
        LET r == rateOp.arg
            v == LastRatio
        IN  /\ r < 0 => v = 0
            /\ r = 0 => v = U32Max
            /\ r >= 60 => v = 1
            /\ (0 < r /\ r < 60) => (v * r <= 60 /\ 60 < (v + 1) * r)
            /\ r > 0 => (v # 0 /\ v # U32Max)
            /\ r = 30 => v = 2
            /\ r = -1 => v = 0
            /\ r = 90 => v = 1

\* C6 witness: a rate strictly between 0 and 60 that does not divide 60 was
\* set after the other ratio had been set to MAX.
C6_Witness ==
    /\ rateOp = [kind |-> "set_framerate", arg |-> 7]
    /\ wallpapers[1].frames_per_update = 8
    /\ wallpapers[1].ticks_per_update = U32Max


(***************************************************************************)
(* Wallpapers on disk: Wallpaper::load, validate_assets,                   *)
(* find_available_wallpapers                                               *)
(***************************************************************************)
\* A referenced file is "ok", "missing", or "corrupt" (it exists but no
\* decoder reads it); "none" is a reference the manifest does not make.
NoEffects == <<>>
Effect(type, image, script, shader, z) ==
    [type |-> type, image |-> image, script |-> script, shader |-> shader,
     z |-> z]

\* The wallpaper directories of the run, by manifest name.
Disk ==
    [forest |->
        [background |-> [kind |-> "Image", file |-> "ok"],
         effects |-> <<Effect("Shader", "ok", "none", "Wave", 5)>>,
         framerate |-> 30, tickrate |-> -1],
     still |->
        [background |-> [kind |-> "Color", file |-> "none"],
         effects |-> NoEffects, framerate |-> 0, tickrate |-> 0],
     nobg |->
        [background |-> [kind |-> "Image", file |-> "missing"],
         effects |-> NoEffects, framerate |-> 30, tickrate |-> -1],
     noimg |->
        [background |-> [kind |-> "Color", file |-> "none"],
         effects |-> <<Effect("Image", "missing", "none", "none", 1)>>,
         framerate |-> 30, tickrate |-> -1],
     noscript |->
        [background |-> [kind |-> "Image", file |-> "ok"],
         effects |-> <<Effect("Particle", "ok", "missing", "none", 1)>>,
         framerate |-> 60, tickrate |-> 60],
     corrupt |->
        [background |-> [kind |-> "Image", file |-> "corrupt"],
         effects |-> NoEffects, framerate |-> 30, tickrate |-> -1],
     custom |->
        [background |-> [kind |-> "Color", file |-> "none"],
         effects |-> <<Effect("Shader", "ok", "none", "Custom", 1)>>,
         framerate |-> 30, tickrate |-> -1]]

WallpaperNames == DOMAIN Disk
RequestNames == WallpaperNames \cup {"ghost"}

\* validate_assets without the script check (a faulty variant).
ValidateAssetsNoScript(w) ==
    IF w.background.kind \in {"Image", "Combined"} /\ w.background.file = "missing"
    THEN "MissingAsset"
    ELSE IF \E i \in 1..Len(w.effects) : w.effects[i].image = "missing"
         THEN "MissingAsset"
         ELSE "Ok"

\* Wallpaper::validate_assets: the background image, then each effect's image
\* and script, must exist.
ValidateAssets(w) ==
    IF w.background.kind \in {"Image", "Combined"} /\ w.background.file = "missing"
    THEN "MissingAsset"
    ELSE IF \E i \in 1..Len(w.effects) :
                \/ w.effects[i].image = "missing"
                \/ w.effects[i].script = "missing"
         THEN "MissingAsset"
         ELSE "Ok"

\* Wallpaper::load on a wallpaper directory; present is FALSE when the
\* directory or its manifest is gone.
Load(name, present) ==
    IF ~present THEN "ValidationError" ELSE ValidateAssets(Disk[name])

\* find_available_wallpapers: the listed wallpapers that load.
FindAvailableWallpapers == {n \in WallpaperNames : Load(n, TRUE) = "Ok"}

\* find_wallpaper_by_name
FindWallpaperByName(name) == name \in FindAvailableWallpapers

(***************************************************************************)
(* Pipelines::from                                                         *)
(***************************************************************************)
\* The render layers of a wallpaper, in get_layers order.  id tells the layers
\* apart: 0 is the background, i the i-th effect of the manifest.
RenderLayers(w) ==
    LET bg == CASE w.background.kind = "Color"
                       -> <<[kind |-> "Color", z |-> 0, image |-> "none",
                             shader |-> "none", id |-> 0]>>
                [] w.background.kind \in {"Image", "Combined"}
                       -> <<[kind |-> "Background", z |-> 0,
                             image |-> w.background.file, shader |-> "none",
                             id |-> 0]>>
                [] OTHER -> <<>>
        all == bg \o [i \in 1..Len(w.effects) |->
                          [kind |-> w.effects[i].type, z |-> w.effects[i].z,
                           image |-> w.effects[i].image,
                           shader |-> w.effects[i].shader, id |-> i]]
    IN  SortByKey(all, ZIndexKeys(all))

\* Building one layer, with colour layers left out (a faulty variant).
BuildLayerNoColor(l) ==
    CASE l.kind = "Color" -> "skip"
      [] l.kind \in {"Background", "Image", "Particle"} ->
             IF l.image = "ok" THEN "texture" ELSE "panic"
      [] l.kind = "Shader" ->
             IF l.image \in {"missing", "corrupt"} THEN "panic"
             ELSE IF l.shader = "Custom" THEN "panic"
             ELSE IF l.image = "ok" THEN "effect" ELSE "skip"

\* What building one layer does: the renderable it pushes, "skip", or "panic"
\* (an unwrap/expect on an asset that does not decode, a custom shader).
BuildLayer(l) ==
    CASE l.kind = "Color" -> "color"
      [] l.kind \in {"Background", "Image", "Particle"} ->
             IF l.image = "ok" THEN "texture" ELSE "panic"
      [] l.kind = "Shader" ->
             IF l.image \in {"missing", "corrupt"} THEN "panic"
             ELSE IF l.shader = "Custom" THEN "panic"
             ELSE IF l.image = "ok" THEN "effect" ELSE "skip"

\* Pipelines::from for wallpaper w, called name: whether it panics, and the
\* renderables it pushes, each built for one layer.
BuildPipelines(w, name) ==
    LET ls == RenderLayers(w)
        built == [i \in 1..Len(ls) |->
                     [kind |-> BuildLayer(ls[i]), of |-> name, layer |-> ls[i].id]]
        Pushed(r) == r.kind \notin {"skip", "panic"}
    IN  [panicked |-> \E i \in 1..Len(ls) : built[i].kind = "panic",
         data |-> SelectSeq(built, Pushed)]

\* Pipelines::from for the wallpaper on disk called name.
PipelinesFrom(name) == BuildPipelines(Disk[name], name)

\* The wallpapers handed to Pipelines::from: loaded, so no file is missing.
AsmBackgrounds ==
    {[kind |-> "None", file |-> "none"], [kind |-> "Color", file |-> "none"],
     [kind |-> "Image", file |-> "ok"], [kind |-> "Image", file |-> "corrupt"]}
AsmEffects ==
    {Effect("Shader", "ok", "none", "Wave", 5),
     Effect("Shader", "none", "none", "Glitch", 10),
     Effect("Shader", "ok", "none", "Custom", -2000),
     Effect("Image", "ok", "none", "none", -2000),
     Effect("Image", "corrupt", "none", "none", 10),
     Effect("Particle", "ok", "ok", "none", 5)}
AsmWallpapers ==
    [background : AsmBackgrounds,
     effects : UNION {[1..n -> AsmEffects] : n \in 0..MaxFx},
     framerate : {30}, tickrate : {-1}]
NoPipelines == [called |-> FALSE]

AsmInit ==
    /\ wallpaperIn \in AsmWallpapers
    /\ pipelines = NoPipelines

\* Pipelines::from(wallpaper, ..)
DoPipelinesFrom ==
    /\ ~pipelines.called
    /\ LET r == BuildPipelines(wallpaperIn, "in")
       IN  pipelines' = [called |-> TRUE, panicked |-> r.panicked,
                         data |-> IF r.panicked THEN <<>> ELSE r.data]
    /\ UNCHANGED <<wallpaperIn, notAsm>>

AsmNext == DoPipelinesFrom

(***************************************************************************)
(* Claims about pipeline assembly, checked under SpecAsm                   *)
(***************************************************************************)
\* The layers of w that have content to draw, by id: the background if there
\* is one, and every effect except a shader effect without an image.
ContentLayers(w) ==
    (IF w.background.kind = "None" THEN {} ELSE {0})
        \cup {i \in 1..Len(w.effects) :
                 ~(w.effects[i].type = "Shader" /\ w.effects[i].image = "none")}

\* The z-index layer id sorts by.
ZOf(w, id) ==
    IF id = 0 THEN (IF w.background.kind = "Color" THEN -999 ELSE -1000)
    ELSE w.effects[id].z

\* C12: an assembly that completes holds exactly one renderable for each
\* layer with content, in ascending z-index with equal z-indices in layer
\* order; an image background with one wave effect above it gives two
\* renderables, the background's texture and then the effect.
C12_OnePerLayerInOrder ==
    (pipelines.called /\ ~pipelines.panicked) =>
        LET d == pipelines.data
            w == wallpaperIn
        IN  /\ Len(d) = Cardinality(ContentLayers(w))
            /\ {d[i].layer : i \in 1..Len(d)} = ContentLayers(w)
            /\ \A i, j \in 1..Len(d) :
                   i < j =>
                       /\ ZOf(w, d[i].layer) <= ZOf(w, d[j].layer)
                       /\ ZOf(w, d[i].layer) = ZOf(w, d[j].layer)
                              => d[i].layer < d[j].layer
            /\ (w.background = [kind |-> "Image", file |-> "ok"]
                   /\ w.effects = <<Effect("Shader", "ok", "none", "Wave", 5)>>)
                  => [i \in 1..Len(d) |-> <<d[i].layer, d[i].kind>>]
                         = <<(<<0, "texture">>), (<<1, "effect">>)>>

\* C12 witness: an image background with one wave effect above it was
\* assembled into two renderables.
C12_Witness ==
    /\ pipelines.called
    /\ ~pipelines.panicked
    /\ wallpaperIn.background = [kind |-> "Image", file |-> "ok"]
    /\ wallpaperIn.effects = <<Effect("Shader", "ok", "none", "Wave", 5)>>
    /\ Len(pipelines.data) = 2


(***************************************************************************)
(* Client: outputs, configure, frame callbacks, WallpaperLayer::draw       *)
(***************************************************************************)
Outputs == {"wl_output@1", "wl_output@2"}
OutputNames == {"DP-1", "UNKNOWN"}
Sizes == {<<1920, 1080>>}
COUNTER_WRAP == 6000

\* set_size that marks the layer damaged whatever the size (a faulty variant).
SetSizeAlwaysDamaged(l, w, h) ==
    [l EXCEPT !.width = w, !.height = h, !.damaged = TRUE]

\* WallpaperLayer::set_size
SetSize(l, w, h) ==
    IF l.width = w /\ l.height = h THEN l
    ELSE [l EXCEPT !.width = w, !.height = h, !.damaged = TRUE]

\* configure that leaves the configured flag alone (a faulty variant).
ConfigureLayerNoFlag(l) == [l EXCEPT !.damaged = TRUE]

\* WallpaperLayer::configure
ConfigureLayer(l) == [l EXCEPT !.configured = TRUE, !.damaged = TRUE]

\* WallpaperLayer::draw, as far as the layer's own fields go: the counters,
\* the damage decision, and the damage flag cleared before the swap texture
\* is acquired.  No output of the model has a name containing "effect-test".
Draw(l) ==
    LET fc == (l.frame_counter + 1) % COUNTER_WRAP
        tc == (l.tick_counter + 1) % COUNTER_WRAP
        should_redraw ==
            IF l.frames_per_update = 0 THEN FALSE
            ELSE fc % l.frames_per_update = 0
        update_animations ==
            IF l.ticks_per_update = 0 THEN TRUE
            ELSE IF l.ticks_per_update = U32Max THEN FALSE
            ELSE tc % l.ticks_per_update = 0
        dmg == \/ l.damaged
               \/ should_redraw
               \/ (update_animations /\ l.ticks_per_update < U32Max)
        counted == [l EXCEPT !.frame_counter = fc, !.tick_counter = tc,
                             !.damaged = dmg]
    IN  IF ~dmg \/ Len(l.wallpaper) = 0 THEN counted
        ELSE [counted EXCEPT !.damaged = FALSE]

ClientInit ==
    /\ wallpapers = <<>>
    /\ daemon = "running"
    /\ handled = NoReply
    /\ rateOp = NoRateOp

\* OutputHandler::new_output.  The output state delivers new_output once for
\* each wl_output object, so o has not been announced before.
NewOutput(o, name) ==
    /\ daemon = "running"
    /\ o \notin outputLog.announced
    /\ wallpapers' = Append(wallpapers, NewLayer(o, name))
    /\ outputLog' = [outputLog EXCEPT !.announced = @ \cup {o}]
    /\ handled' = NoReply
    /\ UNCHANGED <<daemon, rateOp, notOut>>

\* retain that drops nothing (a faulty variant).
RetainAll(ws, i) == ws

\* retain that keeps only the layers before the closed one (a faulty variant).
RetainBefore(ws, i) == SubSeq(ws, 1, i - 1)

\* wallpapers.retain(|v| v.layer != *layer), layer being the surface of ws[i]
RetainOthers(ws, i) == SubSeq(ws, 1, i - 1) \o SubSeq(ws, i + 1, Len(ws))

\* LayerShellHandler::closed for the surface of layer i
Closed(i) ==
    /\ daemon = "running"
    /\ wallpapers' = RetainOthers(wallpapers, i)
    /\ outputLog' = [outputLog EXCEPT !.closed = @ \cup {wallpapers[i].output}]
    /\ handled' = NoReply
    /\ UNCHANGED <<daemon, rateOp, notOut>>

\* LayerShellHandler::configure for the surface of layer i
Configure(i, size) ==
    /\ daemon = "running"
    /\ wallpapers[i].frame_counter < MaxTicks
    /\ LET sized == SetSize(wallpapers[i], size[1], size[2])
       IN  wallpapers' =
               [wallpapers EXCEPT ![i] =
                   IF ~sized.configured THEN Draw(ConfigureLayer(sized))
                   ELSE sized]
    /\ handled' = NoReply
    /\ UNCHANGED <<daemon, rateOp, notClient>>

\* CompositorHandler::frame: draws every live layer
Frame ==
    /\ daemon = "running"
    /\ \E i \in 1..Len(wallpapers) :
           wallpapers[i].configured /\ Len(wallpapers[i].wallpaper) > 0
    /\ \A i \in 1..Len(wallpapers) : wallpapers[i].frame_counter < MaxTicks
    /\ wallpapers' = [i \in 1..Len(wallpapers) |-> Draw(wallpapers[i])]
    /\ handled' = NoReply
    /\ UNCHANGED <<daemon, rateOp, notClient>>

(***************************************************************************)
(* handle_set_wallpaper                                                    *)
(***************************************************************************)
Monitors == {"DP-1", "UNKNOWN", "DP-9"}
NoMonitor == <<>>
RequestMonitors == {NoMonitor} \cup {<<m>> : m \in Monitors}

\* A monitor check that finds every name (a faulty variant).
MonitorFoundAlways(ws, monitor_name) == TRUE

\* client.wallpapers.iter().any(|layer| layer.name == *monitor_name)
MonitorFound(ws, monitor_name) ==
    \E i \in 1..Len(ws) : ws[i].name = monitor_name

\* What the handler does to a layer it sets.
SetLayer(l, name) ==
    [SetTickrate(SetFramerate(l, Disk[name].framerate), Disk[name].tickrate)
        EXCEPT !.wallpaper = PipelinesFrom(name).data, !.damaged = TRUE]

\* Every layer is set, whatever monitor is named (a faulty variant).
TargetsAll(ws, monitor) == 1..Len(ws)

\* The layers the handler sets: the first one named monitor, or all of them.
Targets(ws, monitor) ==
    IF monitor = NoMonitor THEN 1..Len(ws)
    ELSE LET named == {i \in 1..Len(ws) : ws[i].name = monitor[1]}
         IN  {i \in named : \A j \in named : i <= j}

Reply(name, monitor, stage, success, error) ==
    [kind |-> "set_wallpaper", name |-> name, monitor |-> monitor,
     stage |-> stage, answered |-> TRUE, success |-> success, error |-> error]

\* The request of a handler that panicked: no reply.
NoAnswer(name, monitor) ==
    [kind |-> "set_wallpaper", name |-> name, monitor |-> monitor,
     stage |-> "build", answered |-> FALSE, success |-> FALSE, error |-> <<>>]

\* handle_set_wallpaper(req, client).  present is FALSE when the wallpaper's
\* directory vanished between find_wallpaper_by_name and Wallpaper::load.
HandleSetWallpaper(name, monitor, present) ==
    /\ daemon = "running"
    /\ LET loaded == IF name \in WallpaperNames THEN Load(name, present)
                     ELSE "ValidationError"
           targets == Targets(wallpapers, monitor)
       IN  IF ~FindWallpaperByName(name)
           THEN /\ handled' = Reply(name, monitor, "find", FALSE,
                                    <<"Wallpaper not found">>)
                /\ UNCHANGED <<wallpapers, daemon>>
           ELSE IF loaded # "Ok"
           THEN /\ handled' = Reply(name, monitor, "load", FALSE,
                                    <<"Failed to load wallpaper: ", loaded>>)
                /\ UNCHANGED <<wallpapers, daemon>>
           ELSE IF monitor # NoMonitor /\ ~MonitorFound(wallpapers, monitor[1])
           THEN /\ handled' = Reply(name, monitor, "monitor", FALSE,
                                    <<"Monitor '", monitor[1], "' not found">>)
                /\ UNCHANGED <<wallpapers, daemon>>
           ELSE IF targets # {} /\ PipelinesFrom(name).panicked
           THEN /\ handled' = NoAnswer(name, monitor)
                /\ daemon' = "panicked"
                /\ UNCHANGED wallpapers
           ELSE /\ wallpapers' =
                       [i \in 1..Len(wallpapers) |->
                           IF i \in targets THEN SetLayer(wallpapers[i], name)
                           ELSE wallpapers[i]]
                /\ handled' = Reply(name, monitor, "done", TRUE, <<>>)
                /\ UNCHANGED daemon
    /\ UNCHANGED <<rateOp, notClient>>

ClientNext ==
    \/ \E o \in Outputs, name \in OutputNames : NewOutput(o, name)
    \/ \E i \in 1..Len(wallpapers) : Closed(i)
    \/ \E i \in 1..Len(wallpapers), size \in Sizes : Configure(i, size)
    \/ Frame
    \/ \E name \in RequestNames, monitor \in RequestMonitors, present \in BOOLEAN :
           HandleSetWallpaper(name, monitor, present)


(***************************************************************************)
(* Claims about control requests, checked under SpecClient                 *)
(***************************************************************************)
\* The error string, a sequence of parts, contains the text m.
ErrorContains(error, m) == \E i \in 1..Len(error) : error[i] = m

\* The error string is not empty.
ErrorNonEmpty(error) == \E i \in 1..Len(error) : error[i] # ""

\* No live display layer is named m (before the step).
NoLayerNamed(m) == \A i \in 1..Len(wallpapers) : wallpapers[i].name # m

\* The step handled a set-wallpaper request that names a monitor no live
\* layer has.
UnknownMonitorStep ==
    /\ handled'.kind = "set_wallpaper"
    /\ handled'.monitor # NoMonitor
    /\ NoLayerNamed(handled'.monitor[1])

\* C7 as stated: a set-wallpaper request naming a monitor M that no live layer
\* has is answered success = false with an error that contains M, and changes
\* no layer.
C7_UnknownMonitorNamed ==
    [][UnknownMonitorStep =>
          /\ handled'.answered
          /\ ~handled'.success
          /\ ErrorContains(handled'.error, handled'.monitor[1])
          /\ wallpapers' = wallpapers]_vars

\* C7 amended: such a request is answered success = false with a non-empty
\* error and changes no layer; the error contains M when the named wallpaper
\* was found and loaded, and otherwise reports the wallpaper instead.
C7_UnknownMonitorOfLoaded ==
    [][UnknownMonitorStep =>
          /\ handled'.answered
          /\ ~handled'.success
          /\ ErrorNonEmpty(handled'.error)
          /\ wallpapers' = wallpapers
          /\ daemon' = "running"
          /\ handled'.stage \in {"find", "load", "monitor"}
          /\ handled'.stage = "monitor"
                 => ErrorContains(handled'.error, handled'.monitor[1])
          /\ handled'.stage = "find"
                 => handled'.name \notin FindAvailableWallpapers]_vars

\* C7 witness: with two live layers, one of them showing a wallpaper and
\* drawn, a request for a loadable wallpaper on the absent monitor DP-9 was
\* refused with an error naming DP-9.
C7_Witness ==
    /\ handled.kind = "set_wallpaper"
    /\ handled.name = "forest"
    /\ handled.monitor = <<"DP-9">>
    /\ ~handled.success
    /\ ErrorContains(handled.error, "DP-9")
    /\ Len(wallpapers) = 2
    /\ \E i \in 1..2 : Len(wallpapers[i].wallpaper) > 0 /\ ~wallpapers[i].damaged

\* C8 as stated: every set-wallpaper request whose handling fails is answered
\* with success = false and a non-empty error, and the daemon keeps running.
C8_FailuresAnswered ==
    (handled.kind = "set_wallpaper" /\ handled.stage # "done") =>
        /\ handled.answered
        /\ ~handled.success
        /\ ErrorNonEmpty(handled.error)
        /\ daemon = "running"

\* The manifest of w references a file that does not exist.
ReferencesMissingAsset(w) ==
    \/ w.background.file = "missing"
    \/ \E i \in 1..Len(w.effects) :
           w.effects[i].image = "missing" \/ w.effects[i].script = "missing"

\* C9: a wallpaper that references a missing asset fails to load, and a
\* set-wallpaper request for it stops before any renderable is built: it is
\* answered success = false and no layer changes.
C9_MissingAssetRejected ==
    [][(/\ handled'.kind = "set_wallpaper"
        /\ handled'.name \in WallpaperNames
        /\ ReferencesMissingAsset(Disk[handled'.name]))
       => /\ Load(handled'.name, TRUE) = "MissingAsset"
          /\ handled'.stage \in {"find", "load"}
          /\ handled'.answered
          /\ ~handled'.success
          /\ wallpapers' = wallpapers
          /\ daemon' = "running"]_vars

\* C9 witness: with a layer showing a wallpaper, a request for the wallpaper
\* whose particle script is missing was refused.
C9_Witness ==
    /\ handled.kind = "set_wallpaper"
    /\ handled.name = "noscript"
    /\ handled.answered
    /\ ~handled.success
    /\ \E i \in 1..Len(wallpapers) : Len(wallpapers[i].wallpaper) > 0

\* C14: the live set holds exactly one display layer for each output that
\* was announced and whose surface was not closed, never two for one output,
\* and every layer's surface is on the background depth, anchored to all four
\* edges, with keyboard interactivity none and exclusive zone -1.
C14_OneLayerPerLiveOutput ==
    /\ {wallpapers[i].output : i \in 1..Len(wallpapers)}
           = outputLog.announced \ outputLog.closed
    /\ \A i, j \in 1..Len(wallpapers) :
           wallpapers[i].output = wallpapers[j].output => i = j
    /\ \A i \in 1..Len(wallpapers) :
           /\ wallpapers[i].layer.layer = "Background"
           /\ wallpapers[i].layer.anchor = {"TOP", "LEFT", "BOTTOM", "RIGHT"}
           /\ wallpapers[i].layer.keyboard_interactivity = "None"
           /\ wallpapers[i].layer.exclusive_zone = -1

\* C14 witness: two outputs were announced and the surface of one of them
\* was closed, leaving one layer.
C14_Witness ==
    /\ outputLog.announced = Outputs
    /\ Cardinality(outputLog.closed) = 1
    /\ Len(wallpapers) = 1

(***************************************************************************)
(* Shader effect parameters: Layer::from_effect, EffectModelBuilder::build *)
(***************************************************************************)
\* f32 values are kept in fixed point: declared parameters and opacities in
\* tenths, the parameter buffer in hundredths, so that a product of two
\* tenths is exact.
ShaderTypes == {"Wave", "Glitch", "Gaussian"}
ParamNames == {"amplitude", "frequency", "intensity", "radius"}
\* A toml::Value in a params table: a float (in tenths), an integer, a value
\* of another type, or no entry.
Absent == [type |-> "absent", v |-> 0]
ParamValues ==
    {Absent, [type |-> "float", v |-> 4], [type |-> "integer", v |-> 2],
     [type |-> "string", v |-> 0]}
Opacities == {5, 10}
EmptyParams == [n \in ParamNames |-> Absent]
NoFxLayer == [made |-> FALSE]

WAVE_AMPLITUDE == 2
WAVE_FREQUENCY == 5
GLITCH_INTENSITY == 5
GLITCH_FREQUENCY == 3
GAUSSIAN_RADIUS == 35

\* Layer::from_effect, Shader arm.
FromEffect(effect) ==
    [made |-> TRUE, shader |-> effect.shader, uniforms |-> EmptyParams,
     opacity |-> effect.opacity]

\* EffectModelBuilder::parse_f32_param, in tenths.
ParseF32Param(params, name, default) ==
    CASE params[name].type = "float" -> params[name].v
      [] params[name].type = "integer" -> params[name].v * 10
      [] OTHER -> default

\* A value that goes into the buffer as it is / multiplied by the opacity,
\* in hundredths.
Plain(x) == x * 10
Scaled(x, opacity) == x * opacity

\* initial_data of EffectModelBuilder::build, for the builder Pipelines::from
\* sets up from the layer: with_params(uniforms), with_opacity(opacity).
InitialData(l) ==
    CASE l.shader = "Gaussian" ->
             <<Scaled(ParseF32Param(l.uniforms, "radius", GAUSSIAN_RADIUS), l.opacity),
               0, Plain(l.opacity), 0>>
      [] l.shader = "Glitch" ->
             <<Scaled(ParseF32Param(l.uniforms, "intensity", GLITCH_INTENSITY), l.opacity),
               Plain(ParseF32Param(l.uniforms, "frequency", GLITCH_FREQUENCY)),
               Plain(l.opacity), 0>>
      [] l.shader = "Wave" ->
             <<Scaled(ParseF32Param(l.uniforms, "amplitude", WAVE_AMPLITUDE), l.opacity),
               Plain(ParseF32Param(l.uniforms, "frequency", WAVE_FREQUENCY)),
               Plain(l.opacity), 0>>
      [] OTHER -> <<0, 0, Plain(l.opacity), 0>>

FxInit ==
    /\ effectIn \in [shader : ShaderTypes, params : [ParamNames -> ParamValues],
                     opacity : Opacities]
    /\ fxLayer = NoFxLayer
    /\ fxParams = <<>>

\* Wallpaper::get_layers: Layer::from_effect on the declared effect
DoFromEffect ==
    /\ ~fxLayer.made
    /\ fxLayer' = FromEffect(effectIn)
    /\ UNCHANGED <<effectIn, fxParams, notFx>>

\* Pipelines::from, Shader arm: the effect model is built from the layer
DoBuildEffect ==
    /\ fxLayer.made
    /\ fxParams = <<>>
    /\ fxParams' = InitialData(fxLayer)
    /\ UNCHANGED <<effectIn, fxLayer, notFx>>

FxNext == DoFromEffect \/ DoBuildEffect

(***************************************************************************)
(* Claims about effect parameters, checked under SpecFx                    *)
(***************************************************************************)
\* The effect declares parameter name as a number.
Declares(name) == effectIn.params[name].type \in {"float", "integer"}

\* The declared value of parameter name, in tenths.
Declared(name) ==
    IF effectIn.params[name].type = "float" THEN effectIn.params[name].v
    ELSE effectIn.params[name].v * 10

\* C13: for a wave effect that declares amplitude a and frequency f, with
\* opacity o, the parameter buffer written at build time holds amplitude
\* a*o and frequency f*o.
C13_WaveDeclaredScaled ==
    (fxParams # <<>> /\ effectIn.shader = "Wave"
        /\ Declares("amplitude") /\ Declares("frequency")) =>
        /\ fxParams[1] = Declared("amplitude") * effectIn.opacity
        /\ fxParams[2] = Declared("frequency") * effectIn.opacity

(***************************************************************************)
(* Event loop and control channel: EXIT, IpcSocket<Listener>::handle_      *)
(* request, handle_ipc_request                                             *)
(***************************************************************************)
\* The Request variants of the control protocol, and what a client can put
\* on a connection: one of them, a shutdown request, or bytes that do not
\* decode (also a client that closes without sending).
Requests ==
    {"Ping", "SetDaemonState", "SetFramerate", "LoadWallpaper",
     "GetCurrentWallpaper", "ListWallpapers", "InstallWallpaper",
     "SetCurrentWallpaper"}
ClientSends == Requests \cup {"StopServer", "undecodable"}

\* EXIT as true from the start (a faulty variant).
ExitNewTrue == TRUE

\* static EXIT: LazyLock<Mutex<bool>>
ExitNew == FALSE

\* handle_ipc_request answering every request with Pong (a faulty variant).
HandleIpcRequestPong(request) == "Pong"

\* handle_ipc_request: the variant of the response to each request.
HandleIpcRequest(request) ==
    CASE request = "Ping" -> "Pong"
      [] request = "SetDaemonState" -> "DaemonStatus"
      [] request = "SetFramerate" -> "FramerateStatus"
      [] request = "LoadWallpaper" -> "WallpaperLoaded"
      [] request = "GetCurrentWallpaper" -> "CurrentWallpaper"
      [] request = "ListWallpapers" -> "WallpaperList"
      [] request = "InstallWallpaper" -> "WallpaperInstalled"
      [] request = "SetCurrentWallpaper" -> "WallpaperSet"

\* The handler of a shutdown request: it sets the exit flag and replies with
\* a success status.
HandleStopServer == [exit |-> TRUE, response |-> "ServerStopping"]

\* The handler passed to handle_request: what it answers and what becomes of
\* the exit flag.
Dispatch(request, exit) ==
    IF request = "StopServer" THEN HandleStopServer
    ELSE [exit |-> exit, response |-> HandleIpcRequest(request)]

\* IpcSocket<Listener>::handle_request on the head of the listen queue:
\* accept, receive (an undecodable request returns the error, the stream is
\* dropped), handler, send.
HandleRequest(sent, exit) ==
    IF sent = "undecodable"
    THEN [exit |-> exit,
          conn |-> [request |-> sent, received |-> FALSE, responses |-> <<>>]]
    ELSE LET r == Dispatch(sent, exit)
         IN  [exit |-> r.exit,
              conn |-> [request |-> sent, received |-> TRUE,
                        responses |-> <<r.response>>]]

LoopInit ==
    /\ EXIT = ExitNew
    /\ loopPc = "top"
    /\ iteration = 0
    /\ pending = <<>>
    /\ served = <<>>
    /\ stopIter = 0
    /\ lastFrameIter = 0

\* A client connects to the control socket and sends.
Connect(sent) ==
    /\ Len(pending) + Len(served) < MaxConns
    /\ pending' = Append(pending, sent)
    /\ UNCHANGED <<EXIT, loopPc, iteration, served, stopIter, lastFrameIter, notLoop>>

\* The iteration check of the event loop: loop until a shutdown request is
\* observed.
LoopCheck ==
    /\ loopPc = "top"
    /\ IF EXIT
       THEN loopPc' = "done" /\ UNCHANGED iteration
       ELSE /\ iteration < MaxIters
            /\ loopPc' = "body"
            /\ iteration' = iteration + 1
    /\ UNCHANGED <<EXIT, pending, served, stopIter, lastFrameIter, notLoop>>

\* One loop body: wait on both descriptors; for the sources that became
\* ready, the protocol read-and-dispatch (which may draw a frame) and then
\* accept-receive-dispatch-reply-close for one pending control connection.
LoopBody(protocolReady, controlReady) ==
    /\ loopPc = "body"
    /\ lastFrameIter' = IF protocolReady THEN iteration ELSE lastFrameIter
    /\ IF controlReady /\ pending # <<>>
       THEN LET r == HandleRequest(Head(pending), EXIT)
            IN  /\ pending' = Tail(pending)
                /\ served' = Append(served, [conn |-> r.conn, iter |-> iteration])
                /\ EXIT' = r.exit
                /\ stopIter' = IF r.conn.request = "StopServer" /\ stopIter = 0
                               THEN iteration ELSE stopIter
       ELSE UNCHANGED <<pending, served, EXIT, stopIter>>
    /\ loopPc' = "top"
    /\ UNCHANGED <<iteration, notLoop>>

LoopNext ==
    \/ \E sent \in ClientSends : Connect(sent)
    \/ LoopCheck
    \/ \E protocolReady, controlReady \in BOOLEAN :
           LoopBody(protocolReady, controlReady)

Lives == {1, 2}
NoRef == [live |-> FALSE]
NoParticleOp == [kind |-> "none"]
\* Indices a script passes, 0-based, some of them past the pool.
ScriptIndices == 0..(MaxPool + 1)
\* The table update_particle is given: the fields it holds, and their values.
UpdateArgs == [has_alive : BOOLEAN, alive : {0, 1}, has_life : BOOLEAN, life : {2}]

\* The first dead slot of a pool, or 0: iter().position(|p| p.alive == 0)
FirstDead(ps) ==
    IF \E i \in 1..Len(ps) : ps[i].alive = 0
    THEN CHOOSE i \in 1..Len(ps) :
             ps[i].alive = 0 /\ \A j \in 1..(i - 1) : ps[j].alive = 1
    ELSE 0

AliveCount(ps) == Cardinality({i \in 1..Len(ps) : ps[i].alive = 1})

\* emit_particle that grows the pool when no slot is dead (a faulty variant).
EmitParticlePush(ps, life) ==
    IF FirstDead(ps) = 0 THEN Append(ps, [alive |-> 1, life |-> life])
    ELSE [ps EXCEPT ![FirstDead(ps)] = [alive |-> 1, life |-> life]]

\* emit_particle: the first dead slot is reset and made alive; nothing
\* happens when no slot is dead.
EmitParticle(ps, life) ==
    IF FirstDead(ps) = 0 THEN ps
    ELSE [ps EXCEPT ![FirstDead(ps)] = [alive |-> 1, life |-> life]]

\* update_particle(index, args): only index < particles.len() is written.
UpdateParticle(ps, index, args) ==
    IF index < Len(ps)
    THEN [ps EXCEPT ![index + 1] =
              [alive |-> IF args.has_alive THEN args.alive ELSE @.alive,
               life |-> IF args.has_life THEN args.life ELSE @.life]]
    ELSE ps

\* get_particle(index): the particle's table, or an empty table.
GetParticle(ps, index) ==
    IF index < Len(ps) THEN [found |-> TRUE, particle |-> ps[index + 1]]
    ELSE [found |-> FALSE]

\* The update loop of update_particles_builtin over slots 0..max_particles.
BuiltinAged(ps, dt) ==
    [i \in 1..Len(ps) |->
        IF ps[i].alive = 1
        THEN IF ps[i].life - dt <= 0 THEN [alive |-> 0, life |-> ps[i].life - dt]
             ELSE [alive |-> 1, life |-> ps[i].life - dt]
        ELSE ps[i]]

\* The spawn loop of update_particles_builtin: n times, the first dead slot
\* (if any) is made alive with a random life.
RECURSIVE BuiltinSpawn(_, _, _)
BuiltinSpawn(ps, n, lives) ==
    IF n = 0 THEN ps
    ELSE BuiltinSpawn(EmitParticle(ps, lives[n]), n - 1, lives)

Min(a, b) == IF a < b THEN a ELSE b

\* update_particles_builtin: the pool and active_particles after it.
UpdateParticlesBuiltin(ps, max, dt, lives) ==
    LET aged == BuiltinAged(ps, dt)
        alive_count == AliveCount(aged)
    IN  [particles |-> IF alive_count < max \div 2
                       THEN BuiltinSpawn(aged, Min(5, max - alive_count), lives)
                       ELSE aged,
         active_particles |-> alive_count]

\* ParticleModel::new: max_particles slots, all dead.
ParticleInit ==
    /\ max_particles \in 0..MaxPool
    /\ particles = [i \in 1..max_particles |-> [alive |-> 0, life |-> 1]]
    /\ active_particles = 0
    /\ update_script \in BOOLEAN
    /\ luaRef = NoRef
    /\ scriptCalls = 0
    /\ particleOp = NoParticleOp

\* ParticleModel::update without a script
DoUpdateBuiltin(dt, lives) ==
    /\ ~update_script
    /\ LET r == UpdateParticlesBuiltin(particles, max_particles, dt, lives)
       IN  /\ particles' = r.particles
           /\ active_particles' = r.active_particles
    /\ particleOp' = [kind |-> "builtin"]
    /\ UNCHANGED <<max_particles, update_script, luaRef, scriptCalls, notParticle>>

\* update_particles_with_lua up to the start of the script: the script file
\* is read (or the update returns), the pool is cloned into _particles_ref.
BeginLuaUpdate(readOk) ==
    /\ update_script
    /\ ~luaRef.live
    /\ luaRef' = IF readOk THEN [live |-> TRUE, taken |-> FALSE, particles |-> particles]
                 ELSE luaRef
    /\ scriptCalls' = 0
    /\ particleOp' = [kind |-> "begin"]
    /\ UNCHANGED <<max_particles, particles, active_particles, update_script,
                   notParticle>>

\* The script calls emit_particle{life = ..}
ScriptEmit(life) ==
    /\ luaRef.live
    /\ scriptCalls < MaxCalls
    /\ scriptCalls' = scriptCalls + 1
    /\ IF luaRef.taken
       THEN UNCHANGED luaRef /\ particleOp' = [kind |-> "emit", full |-> FALSE, changed |-> FALSE]
       ELSE /\ luaRef' = [luaRef EXCEPT !.particles = EmitParticle(@, life)]
            /\ particleOp' = [kind |-> "emit",
                              full |-> FirstDead(luaRef.particles) = 0,
                              changed |-> luaRef'.particles # luaRef.particles]
    /\ UNCHANGED <<max_particles, particles, active_particles, update_script,
                   notParticle>>

\* The script calls update_particle(index, args)
ScriptUpdateParticle(index, args) ==
    /\ luaRef.live
    /\ scriptCalls < MaxCalls
    /\ scriptCalls' = scriptCalls + 1
    /\ IF luaRef.taken THEN UNCHANGED luaRef
       ELSE luaRef' = [luaRef EXCEPT !.particles = UpdateParticle(@, index, args)]
    /\ particleOp' = [kind |-> "update_particle", index |-> index]
    /\ UNCHANGED <<max_particles, particles, active_particles, update_script,
                   notParticle>>

\* The script calls get_particle(index)
ScriptGetParticle(index) ==
    /\ luaRef.live
    /\ scriptCalls < MaxCalls
    /\ scriptCalls' = scriptCalls + 1
    /\ particleOp' = [kind |-> "get_particle", index |-> index,
                      found |-> ~luaRef.taken
                                   /\ GetParticle(luaRef.particles, index).found]
    /\ UNCHANGED <<max_particles, particles, active_particles, update_script,
                   luaRef, notParticle>>

\* The script assigns something else to the global _particles_ref
ScriptClearRef ==
    /\ luaRef.live
    /\ ~luaRef.taken
    /\ scriptCalls < MaxCalls
    /\ scriptCalls' = scriptCalls + 1
    /\ luaRef' = [luaRef EXCEPT !.taken = TRUE]
    /\ particleOp' = [kind |-> "clear_ref"]
    /\ UNCHANGED <<max_particles, particles, active_particles, update_script,
                   notParticle>>

\* The end of update_particles_with_lua: after a script that failed to load
\* the update returns; otherwise the pool is taken back from _particles_ref,
\* if it is still there, and the alive particles are counted.
EndLuaUpdate(execOk) ==
    /\ luaRef.live
    /\ IF execOk /\ ~luaRef.taken
       THEN /\ particles' = luaRef.particles
            /\ active_particles' = AliveCount(luaRef.particles)
       ELSE UNCHANGED <<particles, active_particles>>
    /\ luaRef' = NoRef
    /\ scriptCalls' = 0
    /\ particleOp' = [kind |-> "end"]
    /\ UNCHANGED <<max_particles, update_script, notParticle>>

ParticleNext ==
    \/ \E dt \in 1..2, lives \in [1..MaxPool -> Lives] : DoUpdateBuiltin(dt, lives)
    \/ \E readOk \in BOOLEAN : BeginLuaUpdate(readOk)
    \/ \E life \in Lives : ScriptEmit(life)
    \/ \E index \in ScriptIndices, args \in UpdateArgs : ScriptUpdateParticle(index, args)
    \/ \E index \in ScriptIndices : ScriptGetParticle(index)
    \/ ScriptClearRef
    \/ \E execOk \in BOOLEAN : EndLuaUpdate(execOk)

(***************************************************************************)
(* Claims about the particle pool, checked under SpecParticle              *)
(***************************************************************************)
\* C17: whatever the built-in behaviour or a script does, the pool (and the
\* copy of it the script works on) has max_particles slots, nothing outside
\* slots [0, max_particles) exists to have been written, at most
\* max_particles particles are alive, and an emit when no slot is dead
\* changes nothing.
C17_PoolWithinCapacity ==
    /\ Len(particles) = max_particles
    /\ DOMAIN particles = 1..max_particles
    /\ AliveCount(particles) <= max_particles
    /\ active_particles <= max_particles
    /\ (luaRef.live /\ ~luaRef.taken) =>
           /\ DOMAIN luaRef.particles = 1..max_particles
           /\ AliveCount(luaRef.particles) <= max_particles
    /\ (particleOp.kind = "emit" /\ particleOp.full) => ~particleOp.changed

\* C17 witness: a script emitted into a pool with no dead slot.
C17_Witness ==
    /\ particleOp.kind = "emit"
    /\ particleOp.full
    /\ max_particles = MaxPool
    /\ AliveCount(luaRef.particles) = max_particles

(***************************************************************************)
(* Daemon process: handle_ipc_request, process_daemon_messages,            *)
(* WallpaperManager                                                        *)
(***************************************************************************)
\* Names and paths are sequences of path components: the wallpaper called n
\* is installed at <<"wallpapers", n>>.
DaemonNames == {"forest", "still", "noimg", "ghost"}
InstalledPath(n) == <<"wallpapers", n>>
NoWallpaper == [has |-> FALSE]

\* WallpaperManager::default: no current wallpaper.
WallpaperManagerDefault == [current_name |-> NoWallpaper, current_wallpaper |-> NoWallpaper]

\* Wallpaper::load on the directory of n.
LoadDir(n) == Load(n, n \in WallpaperNames)

\* load_wallpaper that stores the name before it loads (a faulty variant).
LoadWallpaperNameFirst(m, n) ==
    IF LoadDir(n) = "Ok"
    THEN [ok |-> TRUE,
          manager |-> [current_name |-> [has |-> TRUE, value |-> <<n>>],
                       current_wallpaper |-> [has |-> TRUE, path |-> InstalledPath(n)]]]
    ELSE [ok |-> FALSE,
          manager |-> [m EXCEPT !.current_name = [has |-> TRUE, value |-> <<n>>]]]

\* WallpaperManager::load_wallpaper(name)
LoadWallpaper(m, n) ==
    IF LoadDir(n) = "Ok"
    THEN [ok |-> TRUE,
          manager |-> [current_name |-> [has |-> TRUE, value |-> <<n>>],
                       current_wallpaper |-> [has |-> TRUE, path |-> InstalledPath(n)]]]
    ELSE [ok |-> FALSE, manager |-> m]

\* WallpaperManager::load_from_path(path), path being the directory of n
LoadFromPath(m, n) ==
    IF LoadDir(n) = "Ok"
    THEN [ok |-> TRUE,
          manager |-> [current_name |-> [has |-> TRUE, value |-> InstalledPath(n)],
                       current_wallpaper |-> [has |-> TRUE, path |-> InstalledPath(n)]]]
    ELSE [ok |-> FALSE, manager |-> m]

\* WallpaperManager::get_current_wallpaper, and the reply handle_ipc_request
\* makes of it.
GetCurrentWallpaper(m) ==
    IF m.current_name.has
    THEN [kind |-> "CurrentWallpaper", name |-> m.current_name,
          path |-> IF m.current_wallpaper.has
                   THEN [has |-> TRUE, value |-> m.current_wallpaper.path]
                   ELSE NoWallpaper]
    ELSE [kind |-> "CurrentWallpaper", name |-> NoWallpaper, path |-> NoWallpaper]

\* One message of process_daemon_messages applied to the app's state.
ProcessMessage(st, msg) ==
    LET r == IF msg.kind = "LoadWallpaperFromPath"
             THEN LoadFromPath(st.manager, msg.arg)
             ELSE LoadWallpaper(st.manager, msg.arg)
    IN  [manager |-> r.manager,
         loaded |-> IF r.ok
                    THEN [has |-> TRUE, name |-> <<msg.arg>>,
                          path |-> InstalledPath(msg.arg)]
                    ELSE st.loaded]

\* while let Ok(message) = rx.try_recv() { .. }
RECURSIVE ProcessAll(_, _)
ProcessAll(st, msgs) ==
    IF msgs = <<>> THEN st
    ELSE ProcessAll(ProcessMessage(st, Head(msgs)), Tail(msgs))

DaemonInit ==
    /\ msgChannel = <<>>
    /\ ipcManager = WallpaperManagerDefault
    /\ appManager = WallpaperManagerDefault
    /\ lastLoaded = NoWallpaper
    /\ ipcReply = NoReply

\* A handler that loads into the app's state on its own thread instead of
\* sending a message (a faulty variant).
IpcLoadWallpaperDirect(n) ==
    /\ appManager' = LoadFromPath(appManager, n).manager
    /\ ipcReply' = [kind |-> "WallpaperLoaded", name |-> InstalledPath(n), success |-> TRUE]
    /\ UNCHANGED <<msgChannel, ipcManager, lastLoaded, notDaemon>>

\* handle_ipc_request, Request::LoadWallpaper with the directory of n
IpcLoadWallpaper(n) ==
    /\ Len(msgChannel) < MaxMsgs
    /\ msgChannel' = Append(msgChannel, [kind |-> "LoadWallpaperFromPath", arg |-> n])
    /\ ipcReply' = [kind |-> "WallpaperLoaded", name |-> InstalledPath(n), success |-> TRUE]
    /\ UNCHANGED <<ipcManager, appManager, lastLoaded, notDaemon>>

\* handle_ipc_request, Request::SetCurrentWallpaper
IpcSetCurrentWallpaper(n) ==
    /\ Len(msgChannel) < MaxMsgs
    /\ msgChannel' = Append(msgChannel, [kind |-> "SetCurrentWallpaper", arg |-> n])
    /\ ipcReply' = [kind |-> "WallpaperSet", name |-> <<n>>, success |-> TRUE]
    /\ UNCHANGED <<ipcManager, appManager, lastLoaded, notDaemon>>

\* handle_ipc_request, Request::GetCurrentWallpaper: answered from the state
\* the IPC server holds
IpcGetCurrentWallpaper ==
    /\ ipcReply' = GetCurrentWallpaper(ipcManager)
    /\ UNCHANGED <<msgChannel, ipcManager, appManager, lastLoaded, notDaemon>>

\* process_daemon_messages: the Update system drains the channel into the
\* app's WallpaperState resource
ProcessDaemonMessages ==
    /\ LET st == ProcessAll([manager |-> appManager, loaded |-> lastLoaded], msgChannel)
       IN  /\ appManager' = st.manager
           /\ lastLoaded' = st.loaded
    /\ msgChannel' = <<>>
    /\ ipcReply' = NoReply
    /\ UNCHANGED <<ipcManager, notDaemon>>

DaemonNext ==
    \/ \E n \in DaemonNames : IpcLoadWallpaper(n)
    \/ \E n \in DaemonNames : IpcSetCurrentWallpaper(n)
    \/ IpcGetCurrentWallpaper
    \/ ProcessDaemonMessages

(***************************************************************************)
(* Claims about the daemon process, checked under SpecDaemon               *)
(***************************************************************************)
\* C18: once a load-wallpaper or set-current-wallpaper request has been
\* processed successfully, a get-current-wallpaper request reports the name
\* and the path of the wallpaper last loaded, not an empty answer.
C18_CurrentReported ==
    (ipcReply.kind = "CurrentWallpaper" /\ lastLoaded.has) =>
        /\ ipcReply.name = [has |-> TRUE, value |-> lastLoaded.name]
        /\ ipcReply.path = [has |-> TRUE, value |-> lastLoaded.path]

(***************************************************************************)
(* AnimatedTextureModel: build and pre_render                              *)
(***************************************************************************)
NoPreRender == [kind |-> "none"]

\* A return value of update that reports every pass through the advancing
\* branch (a faulty variant).
UpdateReturnsAdvanced(old_frame, r) == r.advanced

\* The return value of AnimatedTexture::update: old_frame != current_frame
UpdateReturns(old_frame, r) == old_frame # r.idx

\* AnimatedTextureModelBuilder::build: the texture is loaded and the bind
\* group is created on texture.view(), the view of the current frame.
ModelInit ==
    /\ bind_group = current_frame
    /\ preRenderOp = NoPreRender

\* AnimatedTextureModel::pre_render(device, dt)
PreRender(dt) ==
    /\ LET r == UpdateAnim(frames, current_frame, frame_count, looping,
                           time_accumulator, dt)
           frame_changed == UpdateReturns(current_frame, r)
       IN  /\ current_frame' = r.idx
           /\ time_accumulator' = r.acc
           /\ animOp' = [kind |-> "update", changed |-> r.idx # current_frame,
                         advanced |-> r.advanced]
           /\ bind_group' = IF frame_changed THEN r.idx ELSE bind_group
           /\ preRenderOp' = [kind |-> "pre_render", rebuilt |-> frame_changed]
    /\ UNCHANGED <<frames, frame_count, looping, cycle, notModel>>

ModelNext == \E dt \in Dts : PreRender(dt)

(***************************************************************************)
(* Claims about AnimatedTextureModel, checked under SpecModel              *)
(***************************************************************************)
\* C23: right after build and after every pre_render the bind set references
\* the view of the current frame, and a pre_render rebuilds the bind set
\* exactly when its update changed the frame index.
C23_BindSetFollowsFrame ==
    /\ [](bind_group = current_frame)
    /\ [][preRenderOp'.kind = "pre_render"
             => (preRenderOp'.rebuilt <=> current_frame' # current_frame)]_vars

\* C23 witness: a pre_render rebuilt the bind set for a frame other than the
\* first.
C23_Witness ==
    /\ preRenderOp.kind = "pre_render"
    /\ preRenderOp.rebuilt
    /\ bind_group > 0

(***************************************************************************)
(* One display layer: surface configure, frame callbacks, draw             *)
(***************************************************************************)
MaxDraws == 3
DrawRates == {-1, 0, 30, 60}
DrawSizes == {<<1920, 1080>>, <<1280, 720>>}
Surfaces == {"wl_output@1", "wl_output@2"}
\* The layer has been drawn this many times, empty and unconfigured, by frame
\* callbacks of other outputs' surfaces.
StartCounters == {0, COUNTER_WRAP - 2}
DrawAssemblies == {PipelinesFrom("still").data, PipelinesFrom("forest").data}
NoDrawOp == [kind |-> "none"]

\* The damage flag draw tests before it returns early or renders.
DamageDecided(l) == Draw([l EXCEPT !.wallpaper = EmptyPipelines]).damaged

\* draw goes past both early returns: it renders, submits and presents, then
\* requests the next frame callback and commits.
Renders(l, acquired) ==
    DamageDecided(l) /\ Len(l.wallpaper) > 0 /\ acquired

\* handle_set_wallpaper on one layer, for a wallpaper that declares framerate
\* and tickrate and builds assembly.
SetLayerWith(l, assembly, framerate, tickrate) ==
    [SetTickrate(SetFramerate(l, framerate), tickrate)
        EXCEPT !.wallpaper = assembly, !.damaged = TRUE]

DrawInit ==
    /\ \E c \in StartCounters :
           wallpapers = <<[NewLayer("wl_output@1", "DP-1")
                              EXCEPT !.frame_counter = c, !.tick_counter = c]>>
    /\ daemon = "running"
    /\ handled = NoReply
    /\ rateOp = NoRateOp
    /\ surface_config = <<>>
    /\ frame_requested = FALSE
    /\ draws = 0
    /\ drawOp = NoDrawOp

\* handle_set_wallpaper reaches the layer
DrawSetWallpaper(assembly, framerate, tickrate) ==
    /\ wallpapers' = <<SetLayerWith(wallpapers[1], assembly, framerate, tickrate)>>
    /\ drawOp' = [kind |-> "set_wallpaper"]
    /\ UNCHANGED <<daemon, handled, rateOp, surface_config, frame_requested,
                   draws, notDraw>>

\* Client::request_update
RequestUpdate ==
    /\ ~frame_requested
    /\ frame_requested' = TRUE
    /\ drawOp' = [kind |-> "request_update"]
    /\ UNCHANGED <<clientVars, surface_config, draws, notDraw>>

\* LayerShellHandler::configure for a layer surface and a new size.  The
\* swap texture of the immediate draw is acquired or not.
ConfigureEvent(surface, size, acquired) ==
    LET l == wallpapers[1]
        sized == SetSize(l, size[1], size[2])
        conf == ConfigureLayer(sized)
        first == ~sized.configured
    IN  /\ drawOp' = [kind |-> "configure", surface |-> surface, size |-> size,
                      before |-> l, sized |-> sized,
                      drew |-> surface = l.output /\ first,
                      acquired |-> acquired,
                      rendered |-> surface = l.output /\ first
                                       /\ Renders(conf, acquired)]
        /\ IF surface # l.output
           THEN UNCHANGED <<wallpapers, surface_config, frame_requested>>
           ELSE IF first
           THEN /\ surface_config' = <<conf.width, conf.height>>
                /\ wallpapers' = <<Draw(conf)>>
                /\ frame_requested' = (frame_requested \/ Renders(conf, acquired))
           ELSE /\ wallpapers' = <<sized>>
                /\ UNCHANGED <<surface_config, frame_requested>>
        /\ UNCHANGED <<daemon, handled, rateOp, draws, notDraw>>

\* CompositorHandler::frame: the requested callback is delivered and the
\* layer is drawn.  An unconfigured swap surface yields no texture.
FrameDraw(acquired) ==
    LET l == wallpapers[1]
    IN  /\ frame_requested
        /\ acquired => l.configured
        /\ wallpapers' = <<Draw(l)>>
        /\ frame_requested' = Renders(l, acquired)
        /\ drawOp' = [kind |-> "frame", before |-> l, acquired |-> acquired,
                      rendered |-> Renders(l, acquired)]
        /\ UNCHANGED <<daemon, handled, rateOp, surface_config, notDraw>>

FrameEvent(acquired) ==
    /\ draws < MaxDraws
    /\ FrameDraw(acquired)
    /\ draws' = draws + 1

DrawNext ==
    \/ \E assembly \in DrawAssemblies, fr \in DrawRates, tr \in DrawRates :
           DrawSetWallpaper(assembly, fr, tr)
    \/ RequestUpdate
    \/ \E surface \in Surfaces, size \in DrawSizes, acquired \in BOOLEAN :
           ConfigureEvent(surface, size, acquired)
    \/ \E acquired \in BOOLEAN : FrameEvent(acquired)

(***************************************************************************)
(* Claims about one display layer, checked under SpecDraw                  *)
(***************************************************************************)
\* C24: for a layer whose ratios are both MAX (framerate 0 and tickrate 0), a
\* draw that finds the layer undamaged renders nothing and leaves it
\* undamaged, at every value of the counters, the wraparound included.
C24_StaticNeverDamaged ==
    [][(drawOp'.kind = "frame"
          /\ wallpapers[1].frames_per_update = U32Max
          /\ wallpapers[1].ticks_per_update = U32Max
          /\ ~wallpapers[1].damaged)
            => (~drawOp'.rendered /\ ~wallpapers'[1].damaged)]_vars

\* C25: for a configured layer with a non-empty assembly and a
\* compositor-driven framerate (ratio 0), every draw for a frame callback
\* that acquires its swap texture renders, whatever the tick ratio.
C25_CompositorDrivenRedraws ==
    [][(drawOp'.kind = "frame" /\ drawOp'.acquired
          /\ wallpapers[1].configured
          /\ Len(wallpapers[1].wallpaper) > 0
          /\ wallpapers[1].frames_per_update = 0)
            => drawOp'.rendered]_vars

\* C27: a draw that goes past the damage test and fails to acquire the swap
\* texture leaves the layer damaged.
C27_FailedAcquireKeepsDamage ==
    [][(drawOp'.kind = "frame" /\ ~drawOp'.acquired
          /\ DamageDecided(wallpapers[1])
          /\ Len(wallpapers[1].wallpaper) > 0)
            => wallpapers'[1].damaged]_vars

\* C28: set_size with the layer's current width and height leaves width,
\* height, the damage flag and the configured flag (and every other field)
\* as they were; with another size it stores the new width and height and
\* sets the damage flag, the configured flag staying as it was.
C28_SetSizeEffect ==
    (drawOp.kind = "configure" /\ drawOp.surface = drawOp.before.output) =>
        LET b == drawOp.before
            a == drawOp.sized
        IN  IF b.width = drawOp.size[1] /\ b.height = drawOp.size[2]
            THEN a = b
            ELSE /\ a.width = drawOp.size[1]
                 /\ a.height = drawOp.size[2]
                 /\ a.damaged
                 /\ a.configured = b.configured

\* C28 witness: a configured, undamaged layer was given another size.
C28_Witness ==
    /\ drawOp.kind = "configure"
    /\ drawOp.surface = drawOp.before.output
    /\ drawOp.before.configured
    /\ ~drawOp.before.damaged
    /\ drawOp.before.width # drawOp.size[1]
    /\ wallpapers[1].damaged

\* C29: whenever a configured layer renders, the size its swap surface was
\* last configured with is the layer's current width and height.
C29_SurfaceSizeAtRender ==
    [][(drawOp'.kind \in {"frame", "configure"} /\ drawOp'.rendered
          /\ wallpapers'[1].configured)
            => surface_config' = <<wallpapers'[1].width, wallpapers'[1].height>>]_vars

\* C30: a layer is unconfigured until a configure event for its surface; the
\* first such event stores the new size, configures the swap surface with
\* that size and then draws once (rendering the configure damage when the
\* assembly is non-empty and the texture is acquired); a configured layer
\* stays configured; a configure event for another surface changes nothing
\* of the layer.
C30_ConfiguredOnceForGood ==
    /\ [](drawOp.kind = "none" => ~wallpapers[1].configured)
    /\ [](wallpapers[1].configured <=> surface_config # <<>>)
    /\ [][wallpapers[1].configured => wallpapers'[1].configured]_vars
    /\ [][(~wallpapers[1].configured /\ wallpapers'[1].configured)
            => (drawOp'.kind = "configure"
                  /\ drawOp'.surface = wallpapers[1].output)]_vars
    /\ [][(drawOp'.kind = "configure" /\ drawOp'.surface = wallpapers[1].output
             /\ ~wallpapers[1].configured)
            => (/\ wallpapers'[1].configured
                /\ wallpapers'[1].width = drawOp'.size[1]
                /\ wallpapers'[1].height = drawOp'.size[2]
                /\ surface_config' = drawOp'.size
                /\ wallpapers'[1].frame_counter
                       = (wallpapers[1].frame_counter + 1) % COUNTER_WRAP
                /\ drawOp'.rendered
                       = (Len(wallpapers[1].wallpaper) > 0 /\ drawOp'.acquired))]_vars
    /\ [][(drawOp'.kind = "configure" /\ drawOp'.surface # wallpapers[1].output)
            => (wallpapers' = wallpapers /\ surface_config' = surface_config
                  /\ frame_requested' = frame_requested)]_vars

\* C30 witness: the first configure event configured the layer and its draw
\* rendered.
C30_Witness ==
    /\ drawOp.kind = "configure"
    /\ drawOp.drew
    /\ drawOp.rendered
    /\ ~drawOp.before.configured
    /\ wallpapers[1].configured
    /\ surface_config = drawOp.size

(***************************************************************************)
(* One display layer under a fair compositor and a pacing event loop       *)
(***************************************************************************)
\* Declared <<framerate, tickrate>> pairs that are not static.
FairRates == {<<-1, 0>>, <<30, 30>>, <<0, -1>>}

\* A new layer that was given a wallpaper with a non-empty assembly.
FairInit ==
    /\ \E r \in FairRates :
           wallpapers = <<SetLayerWith(NewLayer("wl_output@1", "DP-1"),
                                       PipelinesFrom("still").data, r[1], r[2])>>
    /\ daemon = "running"
    /\ handled = NoReply
    /\ rateOp = NoRateOp
    /\ surface_config = <<>>
    /\ frame_requested = FALSE
    /\ draws = 0
    /\ drawOp = NoDrawOp

FairFrame(acquired) == FrameDraw(acquired) /\ UNCHANGED draws

\* A draw for a frame callback that goes past the damage test and acquires
\* its texture.
FrameRenders == FairFrame(TRUE) /\ Renders(wallpapers[1], TRUE)

FirstConfigure ==
    /\ ~wallpapers[1].configured
    /\ \E size \in Sizes, acquired \in BOOLEAN :
           ConfigureEvent("wl_output@1", size, acquired)

FairNext ==
    \/ FirstConfigure
    \/ RequestUpdate
    \/ \E acquired \in BOOLEAN : FairFrame(acquired)

\* The compositor configures the surface, delivers every requested frame
\* callback and does not withhold the swap texture for ever; the event loop
\* keeps pacing redraw requests.
FairCompositor ==
    /\ WF_vars(FirstConfigure)
    /\ WF_vars(RequestUpdate)
    /\ WF_vars(\E acquired \in BOOLEAN : FairFrame(acquired))
    /\ SF_vars(FrameRenders)

(***************************************************************************)
(* Claims about continued updates, checked under SpecDrawFair              *)
(***************************************************************************)
\* C26: a configured layer with a non-empty assembly and a non-static
\* declared rate is rendered infinitely often under a fair compositor.
C26_RenderedInfinitelyOften == []<><<FrameRenders>>_vars

(***************************************************************************)
(* Claims about frame callbacks and closed surfaces, checked under         *)
(* SpecClient                                                              *)
(***************************************************************************)
\* C31: a frame callback draws the layer that owns the callback's surface and
\* no other: there is a layer such that every other layer is left as it was.
C31_FrameDrawsOneLayer ==
    [][Frame => \E i \in 1..Len(wallpapers) :
                    \A j \in 1..Len(wallpapers) :
                        j # i => wallpapers'[j] = wallpapers[j]]_vars

\* C32: a closed event removes exactly the layer that owns the closed surface
\* and leaves the others in their order and unchanged; no layer of the live
\* set belongs to a closed surface, so no later event draws or configures a
\* removed layer.
C32_ClosedRemovesOne ==
    /\ [](\A i \in 1..Len(wallpapers) :
              wallpapers[i].output \notin outputLog.closed)
    /\ [][outputLog'.closed # outputLog.closed =>
            \E i \in 1..Len(wallpapers) :
                /\ outputLog'.closed = outputLog.closed \cup {wallpapers[i].output}
                /\ Len(wallpapers') = Len(wallpapers) - 1
                /\ \A j \in 1..(i - 1) : wallpapers'[j] = wallpapers[j]
                /\ \A j \in i..Len(wallpapers') :
                       wallpapers'[j] = wallpapers[j + 1]]_vars

\* C32 witness: of two layers one was closed and the other, configured and
\* showing a wallpaper, is the live set.
C32_Witness ==
    /\ outputLog.closed # {}
    /\ Cardinality(outputLog.announced) = 2
    /\ Len(wallpapers) = 1
    /\ wallpapers[1].configured
    /\ Len(wallpapers[1].wallpaper) > 0
    /\ handled = NoReply

\* C33: a successful set-wallpaper request that names monitor M gives the
\* layer of M (the first live layer of that name) the wallpaper's assembly,
\* the ratios of its framerate and tickrate and the damage flag, and leaves
\* every other layer as it was; a successful request without a monitor does
\* so to every live layer.
C33_SetWallpaperTargets ==
    [][(handled'.kind = "set_wallpaper" /\ handled'.stage = "done") =>
          LET n == handled'.name
              m == handled'.monitor
              set(l) == [SetTickrate(SetFramerate(l, Disk[n].framerate),
                                     Disk[n].tickrate)
                            EXCEPT !.wallpaper = PipelinesFrom(n).data,
                                   !.damaged = TRUE]
              first(i) == /\ wallpapers[i].name = m[1]
                          /\ \A j \in 1..(i - 1) : wallpapers[j].name # m[1]
          IN  /\ handled'.success
              /\ Len(wallpapers') = Len(wallpapers)
              /\ m # NoMonitor => \E i \in 1..Len(wallpapers) : first(i)
              /\ \A i \in 1..Len(wallpapers) :
                     wallpapers'[i] =
                         IF m = NoMonitor \/ first(i) THEN set(wallpapers[i])
                         ELSE wallpapers[i]]_vars

\* C33 witness: with the layers DP-1 and UNKNOWN live, a request naming DP-1
\* succeeded and the layer UNKNOWN still has no assembly.
C33_Witness ==
    /\ handled.kind = "set_wallpaper"
    /\ handled.stage = "done"
    /\ handled.monitor = <<"DP-1">>
    /\ Len(wallpapers) = 2
    /\ \E i, j \in 1..2 :
           /\ wallpapers[i].name = "DP-1"
           /\ wallpapers[i].wallpaper = PipelinesFrom(handled.name).data
           /\ wallpapers[i].damaged
           /\ wallpapers[j].name = "UNKNOWN"
           /\ Len(wallpapers[j].wallpaper) = 0

(***************************************************************************)
(* Claims about WallpaperManager, checked under SpecDaemon                 *)
(***************************************************************************)
\* C39: current_name and current_wallpaper are both set or both unset, and
\* when set they are of the same wallpaper; processing messages whose loads
\* all fail leaves both as they were, and otherwise both are those of the
\* last wallpaper that loaded.
C39_CurrentPairConsistent ==
    /\ [](appManager.current_name.has <=> appManager.current_wallpaper.has)
    /\ [](appManager.current_name.has =>
              appManager.current_name.value[Len(appManager.current_name.value)]
                  = appManager.current_wallpaper.path[Len(appManager.current_wallpaper.path)])
    /\ [][(msgChannel # <<>> /\ msgChannel' = <<>>) =>
            LET loads == {i \in 1..Len(msgChannel) : LoadDir(msgChannel[i].arg) = "Ok"}
            IN  IF loads = {} THEN appManager' = appManager
                ELSE LET k == CHOOSE i \in loads : \A j \in loads : j <= i
                     IN  /\ appManager'.current_name.has
                         /\ appManager'.current_wallpaper
                                = [has |-> TRUE,
                                   path |-> InstalledPath(msgChannel[k].arg)]]_vars

\* C39 witness: process_daemon_messages has loaded a wallpaper from its path
\* and the channel is drained.
C39_Witness ==
    /\ appManager.current_name = [has |-> TRUE, value |-> InstalledPath("forest")]
    /\ appManager.current_wallpaper = [has |-> TRUE, path |-> InstalledPath("forest")]
    /\ msgChannel = <<>>
    /\ ipcReply = NoReply

(***************************************************************************)
(* Cadence of counter-triggered redraws                                    *)
(***************************************************************************)
MaxPaceDraws == 12
PaceRates == 1..(SYSTEM_FPS - 1)
\* The layer has been drawn this many times before its wallpaper was set.
PaceStarts == {0, COUNTER_WRAP - 10}

\* should_redraw of the draw call made on layer l
ShouldRedraw(l) ==
    IF l.frames_per_update = 0 THEN FALSE
    ELSE ((l.frame_counter + 1) % COUNTER_WRAP) % l.frames_per_update = 0

PaceInit ==
    /\ \E r \in PaceRates, c \in PaceStarts :
           wallpapers = <<SetFramerate([NewLayer("wl_output@1", "DP-1")
                                           EXCEPT !.frame_counter = c,
                                                  !.tick_counter = c], r)>>
    /\ daemon = "running"
    /\ handled = NoReply
    /\ rateOp = NoRateOp
    /\ sinceRedraw = -1
    /\ lastGap = 0

\* One draw call on the layer
PaceDraw ==
    /\ wallpapers[1].frame_counter % (COUNTER_WRAP - 10) < MaxPaceDraws
    /\ wallpapers' = <<Draw(wallpapers[1])>>
    /\ sinceRedraw' = IF ShouldRedraw(wallpapers[1]) THEN 0
                      ELSE IF sinceRedraw < 0 THEN sinceRedraw
                      ELSE sinceRedraw + 1
    /\ lastGap' = IF ShouldRedraw(wallpapers[1]) /\ sinceRedraw >= 0
                  THEN sinceRedraw + 1 ELSE lastGap
    /\ UNCHANGED <<daemon, handled, rateOp, notPace>>

(***************************************************************************)
(* Claims about the cadence, checked under SpecPace                        *)
(***************************************************************************)
\* C38: for a declared framerate in 1..59 the number of draw calls from one
\* draw with should_redraw to the next is always frames_per_update, and both
\* counters stay within [0, 6000).
C38_ConstantCadence ==
    /\ lastGap \in {0, wallpapers[1].frames_per_update}
    /\ wallpapers[1].frame_counter \in 0..(COUNTER_WRAP - 1)
    /\ wallpapers[1].tick_counter \in 0..(COUNTER_WRAP - 1)

(***************************************************************************)
(* Effect renderables built against the shared pipeline cache              *)
(***************************************************************************)
MaxBuilt == 4
PipeInit ==
    /\ CacheInit
    /\ arcShader = [a \in Arcs |-> "none"]
    /\ effectModels = <<>>

\* EffectModelBuilder::build for a layer of the given shader variant: the
\* pipeline is fetched or created under the label "effect_render_pipeline",
\* the factory compiling the builder's own shader.
BuildEffectModel(shader) ==
    /\ Len(effectModels) < MaxBuilt
    /\ nextArc <= MaxArcs
    /\ LET r == GetOrInit(data, "effect", nextArc)
       IN  /\ data' = r.data
           /\ nextArc' = IF r.called THEN nextArc + 1 ELSE nextArc
           /\ arcShader' = IF r.called THEN [arcShader EXCEPT ![r.ret] = shader]
                           ELSE arcShader
           /\ effectModels' = Append(effectModels,
                                     [shader |-> shader, pipeline |-> r.ret])
    /\ UNCHANGED <<held, onlyInit, lastOp, run, notPipe>>

PipeNext == \E shader \in ShaderTypes : BuildEffectModel(shader)

(***************************************************************************)
(* Claims about effect pipelines, checked under SpecPipe                   *)
(***************************************************************************)
\* C37: the pipeline of every effect renderable was compiled from the shader
\* variant of that renderable's layer.
C37_PipelineOfOwnShader ==
    \A i \in 1..Len(effectModels) :
        arcShader[effectModels[i].pipeline] = effectModels[i].shader

(***************************************************************************)
(* Claims about draws of unconfigured layers, checked under SpecClient     *)
(***************************************************************************)
\* C36: no draw goes on to acquire a swap texture (it is past the damage
\* test with a non-empty assembly) for a layer that is not configured.
C36_NoAcquireUnconfigured ==
    [][Frame => \A i \in 1..Len(wallpapers) :
                    (Len(wallpapers[i].wallpaper) > 0 /\ DamageDecided(wallpapers[i]))
                        => wallpapers[i].configured]_vars

(***************************************************************************)
(* The runner loop and the IPC threads                                     *)
(***************************************************************************)
MaxEvents == 2

RunnerInit ==
    /\ DaemonInit
    /\ runPc = "dispatch"
    /\ wlEvents = 0
    /\ drawStart = [manager |-> appManager, loaded |-> lastLoaded]

\* The compositor sends an event (a configure or a frame callback).
CompositorEvent ==
    /\ wlEvents < MaxEvents
    /\ wlEvents' = wlEvents + 1
    /\ UNCHANGED <<runPc, drawStart, daemonVars, notRun>>

\* event_queue.blocking_dispatch: blocks until events have arrived, then runs
\* their handlers.  CompositorHandler::frame runs app.update() and then
\* draws; LayerShellHandler::configure draws only.
RunnerDispatch(frame) ==
    /\ runPc = "dispatch"
    /\ wlEvents > 0
    /\ wlEvents' = 0
    /\ runPc' = "drawing"
    /\ LET st == IF frame
                 THEN ProcessAll([manager |-> appManager, loaded |-> lastLoaded],
                                 msgChannel)
                 ELSE [manager |-> appManager, loaded |-> lastLoaded]
       IN  /\ appManager' = st.manager
           /\ lastLoaded' = st.loaded
           /\ drawStart' = st
    /\ msgChannel' = IF frame THEN <<>> ELSE msgChannel
    /\ ipcReply' = IF frame THEN NoReply ELSE ipcReply
    /\ UNCHANGED <<ipcManager, notRun>>

\* The draw of the handlers returns.
RunnerDrawEnd ==
    /\ runPc = "drawing"
    /\ runPc' = "sleep"
    /\ UNCHANGED <<wlEvents, drawStart, daemonVars, notRun>>

\* sleep_until(start + pace)
RunnerSleep ==
    /\ runPc = "sleep"
    /\ runPc' = "update"
    /\ UNCHANGED <<wlEvents, drawStart, daemonVars, notRun>>

\* app.update(): the Update schedule runs process_daemon_messages.  The
\* windows are not empty, so the loop goes on.
RunnerUpdate ==
    /\ runPc = "update"
    /\ runPc' = "dispatch"
    /\ LET st == ProcessAll([manager |-> appManager, loaded |-> lastLoaded], msgChannel)
       IN  /\ appManager' = st.manager
           /\ lastLoaded' = st.loaded
    /\ msgChannel' = <<>>
    /\ ipcReply' = NoReply
    /\ UNCHANGED <<ipcManager, wlEvents, drawStart, notRun>>

RunnerNext ==
    \/ CompositorEvent
    \/ \E frame \in BOOLEAN : RunnerDispatch(frame)
    \/ RunnerDrawEnd
    \/ RunnerSleep
    \/ RunnerUpdate
    \/ \E n \in DaemonNames : IpcLoadWallpaper(n)
    \/ \E n \in DaemonNames : IpcSetCurrentWallpaper(n)
    \/ IpcGetCurrentWallpaper

\* The runner thread is scheduled; nothing obliges the compositor to send
\* events or clients to connect.
RunnerFairness ==
    /\ WF_vars(\E frame \in BOOLEAN : RunnerDispatch(frame))
    /\ WF_vars(RunnerDrawEnd)
    /\ WF_vars(RunnerSleep)
    /\ WF_vars(RunnerUpdate)

C35_LoopKeepsIterating ==
    /\ []<><<RunnerUpdate>>_vars
    /\ (msgChannel # <<>>) ~> (msgChannel = <<>>)

(***************************************************************************)
(* Specifications                                                          *)
(***************************************************************************)
CacheIdle == CacheInit
AnimIdle ==
    /\ frames = <<DurationMax>>
    /\ current_frame = 0
    /\ frame_count = 1
    /\ looping = TRUE
    /\ time_accumulator = 0
    /\ animOp = NoAnimOp
    /\ cycle = NoCycle

LayersIdle ==
    /\ manifest = [background |-> "None", effects |-> <<>>]
    /\ layers = <<>>
    /\ layersOp = "none"

LoadIdle ==
    /\ source = NoSource
    /\ loadResult = "none"

AsmIdle ==
    /\ wallpaperIn = Disk["still"]
    /\ pipelines = NoPipelines

FxIdle ==
    /\ effectIn = [shader |-> "Wave", params |-> EmptyParams, opacity |-> 10]
    /\ fxLayer = NoFxLayer
    /\ fxParams = <<>>

OutIdle ==
    outputLog = NoOutputs

LoopIdle ==
    /\ EXIT = ExitNew
    /\ loopPc = "top"
    /\ iteration = 0
    /\ pending = <<>>
    /\ served = <<>>
    /\ stopIter = 0
    /\ lastFrameIter = 0

ParticleIdle ==
    /\ max_particles = 0
    /\ particles = <<>>
    /\ active_particles = 0
    /\ update_script = FALSE
    /\ luaRef = NoRef
    /\ scriptCalls = 0
    /\ particleOp = NoParticleOp

DaemonIdle ==
    /\ msgChannel = <<>>
    /\ ipcManager = WallpaperManagerDefault
    /\ appManager = WallpaperManagerDefault
    /\ lastLoaded = NoWallpaper
    /\ ipcReply = NoReply

ModelIdle ==
    /\ bind_group = 0
    /\ preRenderOp = NoPreRender

DrawIdle ==
    /\ surface_config = <<>>
    /\ frame_requested = FALSE
    /\ draws = 0
    /\ drawOp = NoDrawOp

PaceIdle ==
    /\ sinceRedraw = -1
    /\ lastGap = 0

PipeIdle ==
    /\ arcShader = [a \in Arcs |-> "none"]
    /\ effectModels = <<>>

RunIdle ==
    /\ runPc = "dispatch"
    /\ wlEvents = 0
    /\ drawStart = [manager |-> WallpaperManagerDefault, loaded |-> NoWallpaper]

InitCache == CacheInit /\ AnimIdle /\ LayersIdle /\ ClientInit /\ LoadIdle /\ AsmIdle /\ FxIdle /\ OutIdle /\ LoopIdle /\ ParticleIdle /\ DaemonIdle /\ ModelIdle /\ DrawIdle /\ PaceIdle /\ PipeIdle /\ RunIdle
SpecCache == InitCache /\ [][CacheNext]_vars
InitAnim == AnimInit /\ CacheIdle /\ LayersIdle /\ ClientInit /\ LoadIdle /\ AsmIdle /\ FxIdle /\ OutIdle /\ LoopIdle /\ ParticleIdle /\ DaemonIdle /\ ModelIdle /\ DrawIdle /\ PaceIdle /\ PipeIdle /\ RunIdle
SpecAnim == InitAnim /\ [][AnimNext]_vars
InitLayers == LayersInit /\ CacheIdle /\ AnimIdle /\ ClientInit /\ LoadIdle /\ AsmIdle /\ FxIdle /\ OutIdle /\ LoopIdle /\ ParticleIdle /\ DaemonIdle /\ ModelIdle /\ DrawIdle /\ PaceIdle /\ PipeIdle /\ RunIdle
SpecLayers == InitLayers /\ [][LayersNext]_vars
InitRate == RateInit /\ CacheIdle /\ AnimIdle /\ LayersIdle /\ LoadIdle /\ AsmIdle /\ FxIdle /\ outputLog = [announced |-> {"wl_output@1"}, closed |-> {}] /\ LoopIdle /\ ParticleIdle /\ DaemonIdle /\ ModelIdle /\ DrawIdle /\ PaceIdle /\ PipeIdle /\ RunIdle
SpecRate == InitRate /\ [][RateNext]_vars
InitClient == ClientInit /\ CacheIdle /\ AnimIdle /\ LayersIdle /\ LoadIdle /\ AsmIdle /\ FxIdle /\ OutIdle /\ LoopIdle /\ ParticleIdle /\ DaemonIdle /\ ModelIdle /\ DrawIdle /\ PaceIdle /\ PipeIdle /\ RunIdle
SpecClient == InitClient /\ [][ClientNext]_vars
InitLoad == LoadInit /\ AnimIdle /\ CacheIdle /\ LayersIdle /\ ClientInit /\ AsmIdle /\ FxIdle /\ OutIdle /\ LoopIdle /\ ParticleIdle /\ DaemonIdle /\ ModelIdle /\ DrawIdle /\ PaceIdle /\ PipeIdle /\ RunIdle
SpecLoad == InitLoad /\ [][LoadNext]_vars
InitAsm == AsmInit /\ CacheIdle /\ AnimIdle /\ LayersIdle /\ ClientInit /\ LoadIdle /\ FxIdle /\ OutIdle /\ LoopIdle /\ ParticleIdle /\ DaemonIdle /\ ModelIdle /\ DrawIdle /\ PaceIdle /\ PipeIdle /\ RunIdle
SpecAsm == InitAsm /\ [][AsmNext]_vars
InitFx == FxInit /\ CacheIdle /\ AnimIdle /\ LayersIdle /\ ClientInit /\ LoadIdle /\ AsmIdle /\ OutIdle /\ LoopIdle /\ ParticleIdle /\ DaemonIdle /\ ModelIdle /\ DrawIdle /\ PaceIdle /\ PipeIdle /\ RunIdle
SpecFx == InitFx /\ [][FxNext]_vars
InitLoop == LoopInit /\ CacheIdle /\ AnimIdle /\ LayersIdle /\ ClientInit /\ LoadIdle /\ AsmIdle /\ FxIdle /\ OutIdle /\ ParticleIdle /\ DaemonIdle /\ ModelIdle /\ DrawIdle /\ PaceIdle /\ PipeIdle /\ RunIdle
SpecLoop == InitLoop /\ [][LoopNext]_vars
InitParticle == ParticleInit /\ CacheIdle /\ AnimIdle /\ LayersIdle /\ ClientInit /\ LoadIdle /\ AsmIdle /\ FxIdle /\ OutIdle /\ LoopIdle /\ DaemonIdle /\ ModelIdle /\ DrawIdle /\ PaceIdle /\ PipeIdle /\ RunIdle
SpecParticle == InitParticle /\ [][ParticleNext]_vars
InitDaemon == DaemonInit /\ CacheIdle /\ AnimIdle /\ LayersIdle /\ ClientInit /\ LoadIdle /\ AsmIdle /\ FxIdle /\ OutIdle /\ LoopIdle /\ ParticleIdle /\ ModelIdle /\ DrawIdle /\ PaceIdle /\ PipeIdle /\ RunIdle
SpecDaemon == InitDaemon /\ [][DaemonNext]_vars
InitModel == AnimInit /\ ModelInit /\ CacheIdle /\ LayersIdle /\ ClientInit /\ LoadIdle /\ AsmIdle /\ FxIdle /\ OutIdle /\ LoopIdle /\ ParticleIdle /\ DaemonIdle /\ DrawIdle /\ PaceIdle /\ PipeIdle /\ RunIdle
SpecModel == InitModel /\ [][ModelNext]_vars
InitDraw == DrawInit /\ CacheIdle /\ AnimIdle /\ LayersIdle /\ LoadIdle /\ AsmIdle /\ FxIdle /\ OutIdle /\ LoopIdle /\ ParticleIdle /\ DaemonIdle /\ ModelIdle /\ PaceIdle /\ PipeIdle /\ RunIdle
SpecDraw == InitDraw /\ [][DrawNext]_vars
InitDrawFair == FairInit /\ CacheIdle /\ AnimIdle /\ LayersIdle /\ LoadIdle /\ AsmIdle /\ FxIdle /\ OutIdle /\ LoopIdle /\ ParticleIdle /\ DaemonIdle /\ ModelIdle /\ PaceIdle /\ PipeIdle /\ RunIdle
SpecDrawFair == InitDrawFair /\ [][FairNext]_vars /\ FairCompositor
InitPace == PaceInit /\ CacheIdle /\ AnimIdle /\ LayersIdle /\ LoadIdle /\ AsmIdle /\ FxIdle /\ OutIdle /\ LoopIdle /\ ParticleIdle /\ DaemonIdle /\ ModelIdle /\ DrawIdle /\ PipeIdle /\ RunIdle
SpecPace == InitPace /\ [][PaceDraw]_vars
InitPipe == PipeInit /\ AnimIdle /\ LayersIdle /\ ClientInit /\ LoadIdle /\ AsmIdle /\ FxIdle /\ OutIdle /\ LoopIdle /\ ParticleIdle /\ DaemonIdle /\ ModelIdle /\ DrawIdle /\ PaceIdle /\ RunIdle
SpecPipe == InitPipe /\ [][PipeNext]_vars
InitRunner == RunnerInit /\ CacheIdle /\ AnimIdle /\ LayersIdle /\ ClientInit /\ LoadIdle /\ AsmIdle /\ FxIdle /\ OutIdle /\ LoopIdle /\ ParticleIdle /\ ModelIdle /\ DrawIdle /\ PaceIdle /\ PipeIdle
SpecRunner == InitRunner /\ [][RunnerNext]_vars
SpecRunnerFair == InitRunner /\ [][RunnerNext]_vars /\ RunnerFairness

=============================================================================
